---- MODULE Spec2Model ----
(***************************************************************************)
(* Model of shouni/go-web-exact: the bounded-concurrency ParallelScraper   *)
(* (pkg/scraper) and the HTML content Extractor (pkg/extract).             *)
(*                                                                         *)
(* The specifications share the variables:                                 *)
(*   Spec        one ScrapeInParallel call: dispatch loop, tasks, the      *)
(*               semaphore, the rate limiter, the context and the clock;   *)
(*   SpecLive    Spec with fair scheduling of the goroutines;              *)
(*   SpecOverlap two ScrapeInParallel calls on one scraper;                *)
(*   SpecExtract NewExtractor and one FetchAndExtractText call on a        *)
(*               bounded HTML document;                                    *)
(*   SpecRetry   one retry.Do call on an HTTP operation;                   *)
(*   SpecFeed    one GetAllLinks / GetLinks call.                          *)
(*                                                                         *)
(* Time is discrete; one tick is 250ms.  Strings are sequences of          *)
(* one-character strings.                                                  *)
(***************************************************************************)
EXTENDS Integers, Sequences, FiniteSets, TLC

VARIABLES
    variant,        \* which scraper source: "limiter" (rate.Limiter) or "ticker" (time.Ticker)
    urls,           \* argument urls of ScrapeInParallel
    maxConcurrency, \* ParallelScraper.maxConcurrency
    rateLimit,      \* interval of the limiter / ParallelScraper.rateLimit, in ticks
    ctxState,       \* "live", "canceled" or "deadline"
    ctxDeadline,    \* deadline of ctx in ticks, NoDeadline when it has none
    clock,          \* time.Now()
    limTokens,      \* rate.Limiter.tokens, in 1/rateLimit tokens
    limLast,        \* rate.Limiter.last
    limLastEvent,   \* rate.Limiter.lastEvent
    dpc,            \* position of the ScrapeInParallel goroutine
    idx,            \* index of the range loop over urls
    semaphore,      \* number of elements in the semaphore channel
    wg,             \* sync.WaitGroup counter
    tpc,            \* position of each task goroutine
    tres,           \* the URLResult a task is about to send
    twait,          \* each task's limiter.Wait call: t (the time.Now() it read last), timeToAct, wake
    resultsChan,    \* contents of the buffered channel resultsChan
    finalResults,   \* the returned slice
    admitted,       \* history: clock values at which limiter.Wait returned nil
    ctxAtCall,      \* history: ctx.Err() when ScrapeInParallel was entered
    extracted,      \* history: what FetchAndExtractText returned to each task
    doc,            \* SpecExtract: the parsed document
    xpc,            \* SpecExtract: position of the extraction call
    xparts,         \* SpecExtract: the parts slice
    xres,           \* SpecExtract: (text, hasBodyFound, err)
    fetcher,        \* SpecExtract: the argument of NewExtractor
    extractor,      \* SpecExtract: the *Extractor returned by NewExtractor
    newErr,         \* SpecExtract: the error returned by NewExtractor
    fetchCalls,     \* SpecExtract: history: the number of FetchBytes invocations
    rvariant,       \* SpecRetry: which source of retry.Do: "retry.go" or "part_003"
    rmax,           \* SpecRetry: cfg.MaxRetries
    rctx,           \* SpecRetry: the context of the call: "live", "canceled" or "deadline"
    rpc,            \* SpecRetry: position of the retry.Do call
    rcalls,         \* SpecRetry: history: what each invocation of op returned
    rnumTries,      \* SpecRetry: backOffTries.numTries
    relapsed,       \* SpecRetry: whether MaxElapsedTime of the backoff has passed
    rlastErr,       \* SpecRetry: lastErr of retry.Do
    rerr,           \* SpecRetry: err, the value backoff.Retry returned
    rresult,        \* SpecRetry: the error retry.Do returned
    fsource,        \* SpecFeed: the LinkSource of the call
    fpc,            \* SpecFeed: position of the GetAllLinks / GetLinks call
    fidx,           \* SpecFeed: index of the range loop over a.Items
    furls,          \* SpecFeed: the urls slice of GetLinks
    fresult,        \* SpecFeed: the slice the call returned
    calls           \* SpecOverlap: the locals of each of the overlapping ScrapeInParallel calls

scraperVars == <<variant, urls, maxConcurrency, rateLimit, ctxState, ctxDeadline,
                 clock, limTokens, limLast, limLastEvent, dpc, idx, semaphore, wg,
                 tpc, tres, twait, resultsChan, finalResults, admitted, ctxAtCall, extracted>>
extractVars == <<doc, xpc, xparts, xres, fetcher, extractor, newErr, fetchCalls>>
retryVars == <<rvariant, rmax, rctx, rpc, rcalls, rnumTries, relapsed, rlastErr, rerr, rresult>>
feedVars == <<fsource, fpc, fidx, furls, fresult>>
overlapVars == <<calls>>
vars == <<scraperVars, extractVars, retryVars, feedVars, overlapVars>>

(***************************************************************************)
(* Bounds                                                                  *)
(***************************************************************************)
MaxUrls == 2
MaxTime == 4
URLSet == {"u1", "u2"}
ConcurrencyArgs == {1, 2}
RateLimitArgs == {0, 3}
NoDeadline == 0 - 1
\* no deadline, a deadline already passed at the call, a deadline ahead
DeadlineArgs == {NoDeadline, 0, 2}
\* a task's limiter.Wait call while it runs: t is the time.Now() handed to
\* wait, timeToAct the time of its reservation, wake the time its timer is due
NoWait == [t |-> 0, timeToAct |-> 0, wake |-> 0]
\* rate.InfDuration
InfDuration == 2147483647

MaxBodyElems == 2

Min(a, b) == IF a < b THEN a ELSE b

RECURSIVE SeqsUpTo(_, _)
SeqsUpTo(S, n) ==
    IF n = 0 THEN {<<>>}
    ELSE LET shorter == SeqsUpTo(S, n - 1)
         IN shorter \cup {Append(s, e) : s \in {t \in shorter : Len(t) = n - 1}, e \in S}

(***************************************************************************)
(* Errors and results (pkg/types URLResult)                                *)
(***************************************************************************)
NilError == [kind |-> "nil", wraps |-> "nil"]
\* ctx.Err()
CtxErr == IF ctxState = "canceled" THEN "context.Canceled"
          ELSE IF ctxState = "deadline" THEN "context.DeadlineExceeded"
          ELSE "nil"
CtxDone == ctxState # "live"
URLResult(u, content, err) == [URL |-> u, Content |-> content, Error |-> err]
NoResult == URLResult("", <<>>, NilError)
\* the value of extracted[i] while FetchAndExtractText has not been called
NotCalled == [text |-> <<>>, hasBodyFound |-> FALSE, err |-> "not called"]

(***************************************************************************)
(* Constructor                                                             *)
(***************************************************************************)
DefaultMaxConcurrency == 10
DefaultScrapeRateLimit == 2
TickerDefaultMaxConcurrency == 6

\* NewParallelScraper(extractor, maxConcurrency, rateLimit), rate.Limiter variant
NewParallelScraper(mc, rl) ==
    [maxConcurrency |-> IF mc <= 0 THEN DefaultMaxConcurrency ELSE mc,
     rateLimit      |-> IF rl <= 0 THEN DefaultScrapeRateLimit ELSE rl]

\* NewParallelScraper(extractor, maxConcurrency), time.Ticker variant: the
\* rateLimit field is never assigned and keeps its zero value
NewParallelScraperTicker(mc) ==
    [maxConcurrency |-> IF mc <= 0 THEN TickerDefaultMaxConcurrency ELSE mc,
     rateLimit      |-> 0]

Tasks == 1..Len(urls)

\* pkg/extract: &Extractor{fetcher: fetcher}, and the nil *Extractor
Extractor(f) == [isNil |-> FALSE, fetcher |-> f]
NilExtractor == [isNil |-> TRUE, fetcher |-> "nil"]
\* mutant: the fetcher is stored without the nil test
NewExtractor_NoCheck(f) == [extractor |-> Extractor(f), err |-> "nil"]

\* extract.NewExtractor
NewExtractor(f) ==
    IF f = "nil" THEN [extractor |-> NilExtractor, err |-> "Fetcher cannot be nil"]
    ELSE [extractor |-> Extractor(f), err |-> "nil"]

\* gofeed.Feed as far as the adapter reads it: nil, or its Items
NilFeed == [isNil |-> TRUE, Items |-> <<>>]
Feed(items) == [isNil |-> FALSE, Items |-> items]
\* gofeed.Item as far as GetLinks reads it
Item(link) == [Link |-> link]

\* the nil LinkSource
NilSource == [kind |-> "nil", Feed |-> NilFeed, Links |-> <<>>]
\* feed.NewFeedAdapter
NewFeedAdapter(feed) == [kind |-> "FeedAdapter", Feed |-> feed, Links |-> <<>>]
\* MockLinkSource of links_test.go
MockLinkSource(links) == [kind |-> "MockLinkSource", Feed |-> NilFeed, Links |-> links]

\* no overlapping ScrapeInParallel calls are running
OverlapIdle == calls = <<>>

\* no GetLinks call is running
FeedIdle ==
    /\ fsource = NilSource
    /\ fpc = "idle"
    /\ fidx = 0
    /\ furls = <<>>
    /\ fresult = <<>>

\* no retry.Do call is running
NoError == [chain |-> <<>>, attempt |-> 0, isCtx |-> FALSE, permanent |-> FALSE]
RetryIdle ==
    /\ rvariant = "retry.go"
    /\ rmax = 0
    /\ rctx = "live"
    /\ rpc = "idle"
    /\ rcalls = <<>>
    /\ rnumTries = 0
    /\ relapsed = FALSE
    /\ rlastErr = NoError
    /\ rerr = NoError
    /\ rresult = NoError

Init ==
    /\ variant \in {"limiter", "ticker"}
    \* URL lists up to renaming of the URLs: the first one is "u1"
    /\ urls \in {s \in SeqsUpTo(URLSet, MaxUrls) : s # <<>> => s[1] = "u1"}
    /\ \E mc \in ConcurrencyArgs, rl \in RateLimitArgs :
          LET s == IF variant = "limiter" THEN NewParallelScraper(mc, rl)
                   ELSE NewParallelScraperTicker(mc)
          IN /\ maxConcurrency = s.maxConcurrency
             /\ rateLimit = s.rateLimit
             /\ variant = "ticker" => rl = 0
    \* the context of the call: live (with or without a deadline ahead),
    \* cancelled, or past its deadline when the call is made
    /\ ctxState \in {"live", "canceled", "deadline"}
    /\ ctxDeadline \in DeadlineArgs
    /\ ctxState = "canceled" => ctxDeadline = NoDeadline
    /\ ctxState = "deadline" <=> ctxDeadline = 0
    /\ clock = 0
    \* rate.NewLimiter(rate.Every(rateLimit), 1): a full bucket of burst 1
    /\ limTokens = rateLimit
    /\ limLast = 0
    /\ limLastEvent = 0
    /\ dpc = "call"
    /\ idx = 1
    /\ semaphore = 0
    /\ wg = 0
    /\ tpc = [i \in 1..Len(urls) |-> "unspawned"]
    /\ tres = [i \in 1..Len(urls) |-> NoResult]
    /\ twait = [i \in 1..Len(urls) |-> NoWait]
    /\ resultsChan = <<>>
    /\ finalResults = <<>>
    /\ admitted = <<>>
    /\ ctxAtCall = "unset"
    /\ extracted = [i \in 1..Len(urls) |-> NotCalled]
    /\ doc = <<>>
    /\ xpc = "idle"
    /\ xparts = <<>>
    /\ xres = <<>>
    /\ fetcher = "mock"
    /\ extractor = Extractor("mock")
    /\ newErr = "nil"
    /\ fetchCalls = 0
    /\ RetryIdle
    /\ FeedIdle
    /\ OverlapIdle

(***************************************************************************)
(* Strings: sequences of characters.  An ASCII character is itself (the    *)
(* backtick is written "BT"); any character may be written by its code     *)
(* point in hexadecimal, "Uxxxx", and a character outside ASCII always is. *)
(***************************************************************************)
HexValue(d) ==
    LET HexDigits == <<"0", "1", "2", "3", "4", "5", "6", "7", "8", "9",
                       "A", "B", "C", "D", "E", "F">>
    IN (CHOOSE k \in 1..16 : HexDigits[k] = d) - 1
RECURSIVE HexNumber(_, _)
HexNumber(digits, acc) ==
    IF digits = "" THEN acc
    ELSE HexNumber(Tail(digits), 16 * acc + HexValue(Head(digits)))
IsCodePoint(c) == Len(c) >= 5 /\ Head(c) = "U"
\* the rune of a character written by its code point
Rune(c) == HexNumber(Tail(c), 0)

\* unicode.IsSpace: the White_Space property
UnicodeSpaces ==
    {9, 10, 11, 12, 13, 32, 133, 160, 5760, 8232, 8233, 8239, 8287, 12288} \cup (8192..8202)
\* the white space of strings.TrimSpace and strings.Fields
IsSpace(c) ==
    IF IsCodePoint(c) THEN Rune(c) \in UnicodeSpaces
    ELSE c \in {" ", "\n", "\t", "\r", "\f"}
\* the length of the character's UTF-8 encoding
ByteWidth(c) ==
    IF ~IsCodePoint(c) THEN 1
    ELSE LET r == Rune(c)
         IN IF r < 128 THEN 1 ELSE IF r < 2048 THEN 2 ELSE IF r < 65536 THEN 3 ELSE 4

RECURSIVE ByteLen(_)
\* len(s) of a Go string: bytes
ByteLen(s) == IF s = <<>> THEN 0 ELSE ByteWidth(Head(s)) + ByteLen(Tail(s))

RECURSIVE TrimLeft(_)
TrimLeft(s) == IF s # <<>> /\ IsSpace(Head(s)) THEN TrimLeft(Tail(s)) ELSE s

RECURSIVE TrimRight(_)
TrimRight(s) ==
    IF s # <<>> /\ IsSpace(s[Len(s)]) THEN TrimRight(SubSeq(s, 1, Len(s) - 1)) ELSE s

\* strings.TrimSpace
TrimSpace(s) == TrimRight(TrimLeft(s))

RECURSIVE ReplaceAll(_, _, _)
\* strings.ReplaceAll for single characters
ReplaceAll(s, old, new) ==
    IF s = <<>> THEN <<>>
    ELSE <<IF Head(s) = old THEN new ELSE Head(s)>> \o ReplaceAll(Tail(s), old, new)

RECURSIVE FieldsFrom(_, _)
\* strings.Fields: the maximal runs of non-space characters; cur is the field being read
FieldsFrom(s, cur) ==
    IF s = <<>> THEN (IF cur = <<>> THEN <<>> ELSE <<cur>>)
    ELSE IF IsSpace(Head(s))
         THEN (IF cur = <<>> THEN <<>> ELSE <<cur>>) \o FieldsFrom(Tail(s), <<>>)
         ELSE FieldsFrom(Tail(s), Append(cur, Head(s)))
Fields(s) == FieldsFrom(s, <<>>)

RECURSIVE Join(_, _)
\* strings.Join
Join(parts, sep) ==
    IF parts = <<>> THEN <<>>
    ELSE IF Len(parts) = 1 THEN parts[1]
    ELSE parts[1] \o sep \o Join(Tail(parts), sep)

\* normalizeText / textUtils.NormalizeText
NormalizeText(text) ==
    TrimSpace(Join(Fields(ReplaceAll(ReplaceAll(text, "\n", " "), "\t", " ")), <<" ">>))

\* strings.HasPrefix
HasPrefix(s, prefix) ==
    /\ Len(s) >= Len(prefix)
    /\ SubSeq(s, 1, Len(prefix)) = prefix

(***************************************************************************)
(* Extractor constants (pkg/extract/extractor.go)                          *)
(***************************************************************************)
MinParagraphLength == 20
MinHeadingLength == 3
titlePrefix == <<"U3010", "U8A18", "U4E8B", "U30BF", "U30A4", "U30C8", "U30EB", "U3011", " ">>
tableCaptionPrefix == <<"U3010", "U8868", "U984C", "U3011", " ">>
HeadingTags == {"h1", "h2", "h3", "h4", "h5", "h6"}
\* textExtractionTags
textExtractionTags == {"p", "li", "blockquote"} \cup HeadingTags
\* contentSelectors := textExtractionTags + ", table, pre"
contentSelectors == textExtractionTags \cup {"table", "pre"}
\* mainContentSelectors
MainTags == {"article", "main"}
MainAttrs == {"#main", "#content", ".post-content", ".article-body", ".entry-content",
              ".markdown-body", ".readme"}
\* noiseSelectors
NoiseAttrs == {".related-posts", ".social-share", ".comments", ".ad-banner", ".advertisement"}
\* the argument of Not in findMainContent
ChromeTags == {"header", "footer", "nav", "aside", "script", "style", "form"}

(***************************************************************************)
(* The document tree.  A node is an element (tag, one id/class/role token, *)
(* children) or a text node (tag "#text").                                 *)
(***************************************************************************)
Elem(tag, attr, kids) == [tag |-> tag, attr |-> attr, text |-> <<>>, kids |-> kids]
TextNode(t) == [tag |-> "#text", attr |-> "", text |-> t, kids |-> <<>>]
\* goquery.NewDocumentFromReader: html.Parse always yields html, head and body
Document(headKids, bodyKids) ==
    Elem("#document", "", <<Elem("html", "",
        <<Elem("head", "", headKids), Elem("body", "", bodyKids)>>)>>)

MatchesMain(n) ==
    \/ n.tag \in MainTags
    \/ n.tag = "div" /\ n.attr = "role=main"
    \/ n.attr \in MainAttrs
MatchesChrome(n) == n.tag \in ChromeTags \/ n.attr = ".sidebar"
MatchesContent(n) == n.tag \in contentSelectors

RECURSIVE NodeText(_)
RECURSIVE KidsText(_)
\* Selection.Text() of one node: the text of its descendant text nodes, in order
NodeText(n) == IF n.tag = "#text" THEN n.text ELSE KidsText(n.kids)
KidsText(kids) == IF kids = <<>> THEN <<>> ELSE NodeText(Head(kids)) \o KidsText(Tail(kids))

RECURSIVE Descendants(_)
RECURSIVE DescendantsOfKids(_)
\* the descendant elements of a node in document (depth-first, pre-order) order
Descendants(n) == DescendantsOfKids(n.kids)
DescendantsOfKids(kids) ==
    IF kids = <<>> THEN <<>>
    ELSE LET k == Head(kids)
         IN (IF k.tag = "#text" THEN <<>> ELSE <<k>> \o Descendants(k))
            \o DescendantsOfKids(Tail(kids))

SelectTags(nodes, tags) == SelectSeq(nodes, LAMBDA n : n.tag \in tags)

RECURSIVE RemoveDesc(_, _, _)
RECURSIVE RemoveFromKids(_, _, _)
\* sel.Find(selector).Remove(): the node without its descendants that have a
\* tag in tags or a token in attrs
RemoveDesc(n, tags, attrs) ==
    [tag |-> n.tag, attr |-> n.attr, text |-> n.text,
     kids |-> RemoveFromKids(n.kids, tags, attrs)]
RemoveFromKids(kids, tags, attrs) ==
    IF kids = <<>> THEN <<>>
    ELSE LET k == Head(kids)
         IN (IF k.tag # "#text" /\ (k.tag \in tags \/ k.attr \in attrs)
             THEN <<>> ELSE <<RemoveDesc(k, tags, attrs)>>)
            \o RemoveFromKids(Tail(kids), tags, attrs)

(***************************************************************************)
(* Extractor (pkg/extract/extractor.go)                                    *)
(***************************************************************************)
\* findMainContent: a selection (sequence) of at most one node
findMainContent(d) ==
    LET found == SelectSeq(Descendants(d), MatchesMain)
    IN IF Len(found) > 0 THEN <<found[1]>>
       \* doc.Selection.Not(...): the document node itself, kept unless it matches
       ELSE SelectSeq(<<d>>, LAMBDA n : ~MatchesChrome(n))

\* processGeneralElement
processGeneralElement(s) ==
    LET tempSelection == RemoveDesc(s, {"pre", "table"}, {})
        text == NormalizeText(NodeText(tempSelection))
        isHeading == s.tag \in HeadingTags
        isListItem == s.tag = "li"
    IN IF text = <<>> THEN <<>>
       ELSE IF isHeading
            THEN (IF ByteLen(text) > MinHeadingLength THEN <<"#", "#", " ">> \o text ELSE <<>>)
            ELSE (IF isListItem \/ ByteLen(text) > MinParagraphLength THEN text ELSE <<>>)

RECURSIVE RowLines(_)
\* the s.Find("tr").Each loop of processTable: one joined line per row
RowLines(rows) ==
    IF rows = <<>> THEN <<>>
    ELSE LET cells == SelectTags(Descendants(Head(rows)), {"th", "td"})
             rowTexts == [c \in 1..Len(cells) |-> NormalizeText(NodeText(cells[c]))]
         IN <<Join(rowTexts, <<" ", "|", " ">>)>> \o RowLines(Tail(rows))

\* processTable
processTable(s) ==
    LET captions == SelectTags(Descendants(s), {"caption"})
        captionText == TrimSpace(IF captions = <<>> THEN <<>> ELSE NodeText(captions[1]))
        tableContent ==
            (IF captionText # <<>> THEN <<tableCaptionPrefix \o captionText>> ELSE <<>>)
            \o RowLines(SelectTags(Descendants(s), {"tr"}))
    IN IF Len(tableContent) > 0 THEN Join(tableContent, <<"\n">>) ELSE <<>>

\* mutant: the text of a pre element is whitespace-normalized like other text
ElementContent_PreNormalized(s) ==
    IF s.tag = "table" THEN processTable(s)
    ELSE IF s.tag = "pre"
         THEN LET preText == NormalizeText(NodeText(s))
              IN IF preText # <<>>
                 THEN <<"BT", "BT", "BT", "\n">> \o preText \o <<"\n", "BT", "BT", "BT">>
                 ELSE <<>>
         ELSE processGeneralElement(s)

\* the body of the Each callback of extractContentText
ElementContent(s) ==
    IF s.tag = "table" THEN processTable(s)
    ELSE IF s.tag = "pre"
         THEN LET preText == TrimSpace(NodeText(s))
              IN IF preText # <<>>
                 THEN <<"BT", "BT", "BT", "\n">> \o preText \o <<"\n", "BT", "BT", "BT">>
                 ELSE <<>>
         ELSE processGeneralElement(s)

RECURSIVE CollectParts(_)
CollectParts(elements) ==
    IF elements = <<>> THEN <<>>
    ELSE LET content == ElementContent(Head(elements))
         IN (IF content # <<>> THEN <<content>> ELSE <<>>) \o CollectParts(Tail(elements))

\* pageTitle := strings.TrimSpace(doc.Find("title").First().Text())
PageTitle(d) ==
    LET titles == SelectTags(Descendants(d), {"title"})
    IN TrimSpace(IF titles = <<>> THEN <<>> ELSE NodeText(titles[1]))

\* mutant: tables and code blocks are collected in a trailing pass
ContentElements_TrailingPass(d) ==
    LET mainContent == findMainContent(d)
        cleaned == [m \in 1..Len(mainContent) |-> RemoveDesc(mainContent[m], {}, NoiseAttrs)]
        found == IF cleaned = <<>> THEN <<>>
                 ELSE SelectSeq(Descendants(cleaned[1]), MatchesContent)
    IN SelectSeq(found, LAMBDA n : n.tag \notin {"table", "pre"})
       \o SelectSeq(found, LAMBDA n : n.tag \in {"table", "pre"})

\* mainContent.Find(noiseSelectors).Remove(); mainContent.Find(contentSelectors)
ContentElements(d) ==
    LET mainContent == findMainContent(d)
        cleaned == [m \in 1..Len(mainContent) |-> RemoveDesc(mainContent[m], {}, NoiseAttrs)]
    IN IF cleaned = <<>> THEN <<>>
       ELSE SelectSeq(Descendants(cleaned[1]), MatchesContent)

\* mutant: the title part is appended without the pageTitle != "" test
ExtractParts_AlwaysTitle(d) ==
    <<titlePrefix \o PageTitle(d)>> \o CollectParts(ContentElements(d))

\* the parts slice built by extractContentText
ExtractParts(d) ==
    LET pageTitle == PageTitle(d)
        titlePart == IF pageTitle # <<>> THEN <<titlePrefix \o pageTitle>> ELSE <<>>
    IN titlePart \o CollectParts(ContentElements(d))

ExtractionResult(text, hasBodyFound, err) ==
    [text |-> text, hasBodyFound |-> hasBodyFound, err |-> err]

\* mutant: a title-only page is reported as an error
validateAndFormatResult_TitleOnlyError(parts) ==
    IF Len(parts) = 0 \/ (Len(parts) = 1 /\ HasPrefix(parts[1], titlePrefix))
    THEN ExtractionResult(<<>>, FALSE, "NothingExtracted")
    ELSE ExtractionResult(Join(parts, <<"\n", "\n">>), TRUE, "nil")

\* validateAndFormatResult
validateAndFormatResult(parts) ==
    IF Len(parts) = 0 THEN ExtractionResult(<<>>, FALSE, "NothingExtracted")
    ELSE LET isTitleOnly == Len(parts) = 1 /\ HasPrefix(parts[1], titlePrefix)
         IN IF isTitleOnly THEN ExtractionResult(parts[1], FALSE, "nil")
            ELSE ExtractionResult(Join(parts, <<"\n", "\n">>), TRUE, "nil")

\* extractContentText
extractContentText(d) == validateAndFormatResult(ExtractParts(d))

\* FetchAndExtractText on the fetcher's response: a fetch error or the parsed bytes
FetchError == [fetchErr |-> TRUE, doc |-> <<>>]
FetchOk(d) == [fetchErr |-> FALSE, doc |-> d]
\* mutant: a fetch error is swallowed
FetchAndExtractText_SwallowError(response) ==
    IF response.fetchErr THEN ExtractionResult(<<>>, FALSE, "nil")
    ELSE extractContentText(response.doc)

\* FetchAndExtractText: the fetcher's error as it is, or extractContentText
FetchAndExtractText(response) ==
    IF response.fetchErr THEN ExtractionResult(<<>>, FALSE, "FetchFailure")
    ELSE extractContentText(response.doc)

(***************************************************************************)
(* Pages served to one ScrapeInParallel call                               *)
(***************************************************************************)
TextA == <<"a", "b">>
LongText == [i \in 1..(MinParagraphLength + 1) |-> "a"]
TitleElem(t) == Elem("title", "", <<TextNode(t)>>)
Para(t) == Elem("p", "", <<TextNode(t)>>)
\* a failed fetch, a page with a title and no body, a page with a body
ScrapeResponses ==
    LET TitleOnlyDoc == Document(<<TitleElem(TextA)>>, <<Para(TextA)>>)
        BodyDoc == Document(<<TitleElem(TextA)>>, <<Para(LongText)>>)
    IN {FetchError, FetchOk(TitleOnlyDoc), FetchOk(BodyDoc)}

(***************************************************************************)
(* rate.Limiter with burst 1; tokens are counted in ticks of refill time   *)
(***************************************************************************)
\* Limiter.advance: the tokens at time t
LimAdvance(t) ==
    LET last == IF t < limLast THEN t ELSE limLast
    IN Min(rateLimit, limTokens + (t - last))

\* mutant: the reservation does not take its token out of the bucket
ReserveN_NoDebit(t, waitLimit) ==
    [ok |-> TRUE, tokens |-> LimAdvance(t), timeToAct |-> t]

\* Limiter.reserveN(t, 1, maxFutureReserve)
ReserveN(t, waitLimit) ==
    LET tokens == LimAdvance(t) - rateLimit
        waitDuration == IF tokens < 0 THEN 0 - tokens ELSE 0
        ok == waitDuration <= waitLimit
    IN [ok |-> ok, tokens |-> tokens, timeToAct |-> t + waitDuration]

\* Reservation.CancelAt(t) for a reservation of one token: the limiter fields after it
CancelAt(timeToAct, t) ==
    LET restoreTokens == rateLimit - (limLastEvent - timeToAct)
        tokens == Min(rateLimit, LimAdvance(t) + restoreTokens)
        prevEvent == timeToAct - rateLimit
    IN IF timeToAct < t \/ restoreTokens <= 0
       THEN [tokens |-> limTokens, last |-> limLast, lastEvent |-> limLastEvent]
       ELSE [tokens |-> tokens, last |-> t,
             lastEvent |-> IF timeToAct = limLastEvent /\ prevEvent >= t
                           THEN prevEvent ELSE limLastEvent]

(***************************************************************************)
(* ScrapeInParallel: the calling goroutine                                 *)
(***************************************************************************)
ctxVars == <<ctxState, ctxDeadline, clock>>
limVars == <<limTokens, limLast, limLastEvent>>
cfgVars == <<variant, urls, maxConcurrency, rateLimit>>

\* make(resultsChan), make(semaphore): rate.Limiter variant
Begin ==
    /\ dpc = "call"
    /\ variant = "limiter"
    /\ dpc' = "loop"
    /\ ctxAtCall' = CtxErr
    /\ UNCHANGED <<cfgVars, ctxVars, limVars, idx, semaphore, wg, tpc, tres, twait,
                   resultsChan, finalResults, admitted, extracted, extractVars, retryVars, feedVars, overlapVars>>

\* time.Ticker variant: time.NewTicker(s.rateLimit) panics on a non-positive interval
BeginTicker ==
    /\ dpc = "call"
    /\ variant = "ticker"
    /\ rateLimit <= 0
    /\ dpc' = "panicked"
    /\ UNCHANGED <<cfgVars, ctxVars, limVars, idx, semaphore, wg, tpc, tres, twait,
                   resultsChan, finalResults, admitted, ctxAtCall, extracted, extractVars, retryVars, feedVars, overlapVars>>

\* for _, url := range urls { wg.Add(1)
WgAdd ==
    /\ dpc = "loop"
    /\ idx <= Len(urls)
    /\ wg' = wg + 1
    /\ dpc' = "acquire"
    /\ UNCHANGED <<cfgVars, ctxVars, limVars, idx, semaphore, tpc, tres, twait,
                   resultsChan, finalResults, admitted, ctxAtCall, extracted, extractVars, retryVars, feedVars, overlapVars>>

\* mutant: the send on the semaphore never blocks
Acquire_NoBlock ==
    /\ dpc = "acquire"
    /\ semaphore' = semaphore + 1
    /\ dpc' = "spawn"
    /\ UNCHANGED <<cfgVars, ctxVars, limVars, idx, wg, tpc, tres, twait,
                   resultsChan, finalResults, admitted, ctxAtCall, extracted, extractVars, retryVars, feedVars, overlapVars>>

\* semaphore <- struct{}{}   (blocks while the channel is full)
Acquire ==
    /\ dpc = "acquire"
    /\ semaphore < maxConcurrency
    /\ semaphore' = semaphore + 1
    /\ dpc' = "spawn"
    /\ UNCHANGED <<cfgVars, ctxVars, limVars, idx, wg, tpc, tres, twait,
                   resultsChan, finalResults, admitted, ctxAtCall, extracted, extractVars, retryVars, feedVars, overlapVars>>

\* go func(u string) {...}(url)
Spawn ==
    /\ dpc = "spawn"
    /\ tpc' = [tpc EXCEPT ![idx] = "limiter"]
    /\ idx' = idx + 1
    /\ dpc' = "loop"
    /\ UNCHANGED <<cfgVars, ctxVars, limVars, semaphore, wg, tres, twait,
                   resultsChan, finalResults, admitted, ctxAtCall, extracted, extractVars, retryVars, feedVars, overlapVars>>

\* mutant: the results are collected without wg.Wait()
Return_NoWait ==
    /\ dpc = "loop"
    /\ idx > Len(urls)
    /\ finalResults' = resultsChan
    /\ dpc' = "done"
    /\ UNCHANGED <<cfgVars, ctxVars, limVars, idx, semaphore, wg, tpc, tres, twait,
                   resultsChan, admitted, ctxAtCall, extracted, extractVars, retryVars, feedVars, overlapVars>>

\* wg.Wait(); close(resultsChan); range resultsChan; return finalResults
Return ==
    /\ dpc = "loop"
    /\ idx > Len(urls)
    /\ wg = 0
    /\ finalResults' = resultsChan
    /\ dpc' = "done"
    /\ UNCHANGED <<cfgVars, ctxVars, limVars, idx, semaphore, wg, tpc, tres, twait,
                   resultsChan, admitted, ctxAtCall, extracted, extractVars, retryVars, feedVars, overlapVars>>

(***************************************************************************)
(* ScrapeInParallel: the task goroutine of urls[i]                         *)
(***************************************************************************)
\* mutant: the error of limiter.Wait is formatted with %v, which does not wrap it
WaitError_NoWrap(cause) == [kind |-> "RateLimitWait", wraps |-> "nil"]

\* fmt.Errorf("...: %w", err) around the error of limiter.Wait
WaitError(cause) == [kind |-> "RateLimitWait", wraps |-> cause]

\* mutant: a page without body is not turned into an error
ExtractErr_TitleOnlyOk(r) ==
    IF r.err # "nil" THEN [kind |-> "ExtractFailed", wraps |-> r.err] ELSE NilError

\* the extractErr computed from (content, hasBodyFound, err)
ExtractErr(r) ==
    IF r.err # "nil" THEN [kind |-> "ExtractFailed", wraps |-> r.err]
    ELSE IF ~r.hasBodyFound THEN [kind |-> "NoBody", wraps |-> "nil"]
    ELSE NilError

\* s.limiter.Wait(ctx): WaitN hands time.Now() to wait
WaitNow(i) ==
    /\ tpc[i] = "limiter"
    /\ twait' = [twait EXCEPT ![i].t = clock]
    /\ tpc' = [tpc EXCEPT ![i] = "ctxCheck"]
    /\ UNCHANGED <<cfgVars, ctxVars, limVars, dpc, idx, semaphore, wg, tres,
                   resultsChan, finalResults, admitted, ctxAtCall, extracted, extractVars, retryVars, feedVars, overlapVars>>

\* wait: select { case <-ctx.Done(): return ctx.Err(); default: }
\* (when Wait returns, the record of the call is cleared)
WaitCtxCheck(i) ==
    /\ tpc[i] = "ctxCheck"
    /\ IF CtxDone
       THEN /\ tres' = [tres EXCEPT ![i] = URLResult(urls[i], <<>>, WaitError(CtxErr))]
            /\ tpc' = [tpc EXCEPT ![i] = "send"]
            /\ twait' = [twait EXCEPT ![i] = NoWait]
       ELSE /\ tpc' = [tpc EXCEPT ![i] = "reserve"]
            /\ UNCHANGED <<tres, twait>>
    /\ UNCHANGED <<cfgVars, ctxVars, limVars, dpc, idx, semaphore, wg,
                   resultsChan, finalResults, admitted, ctxAtCall, extracted, extractVars, retryVars, feedVars, overlapVars>>

\* wait: waitLimit = deadline.Sub(t); r := lim.reserveN(t, n, waitLimit), with
\* the t read when Wait was entered; without a delay Wait goes on to return nil
WaitReserve(i) ==
    /\ tpc[i] = "reserve"
    /\ LET t == twait[i].t
           waitLimit == IF ctxDeadline = NoDeadline THEN InfDuration ELSE ctxDeadline - t
           r == ReserveN(t, waitLimit)
       IN IF ~r.ok
          THEN /\ tres' = [tres EXCEPT ![i] =
                              URLResult(urls[i], <<>>, WaitError("rate: would exceed context deadline"))]
               /\ tpc' = [tpc EXCEPT ![i] = "send"]
               /\ twait' = [twait EXCEPT ![i] = NoWait]
               /\ UNCHANGED limVars
          ELSE /\ limLast' = t
               /\ limTokens' = r.tokens
               /\ limLastEvent' = r.timeToAct
               /\ IF r.timeToAct = t
                  THEN /\ tpc' = [tpc EXCEPT ![i] = "return"]
                       /\ twait' = [twait EXCEPT ![i] = NoWait]
                  ELSE /\ tpc' = [tpc EXCEPT ![i] = "timer"]
                       /\ twait' = [twait EXCEPT ![i].timeToAct = r.timeToAct]
               /\ UNCHANGED tres
    /\ UNCHANGED <<cfgVars, ctxVars, dpc, idx, semaphore, wg, admitted,
                   resultsChan, finalResults, ctxAtCall, extracted, extractVars, retryVars, feedVars, overlapVars>>

\* wait: delay := r.DelayFrom(t); time.NewTimer(delay), started now
\* (wait does not read t again)
WaitTimer(i) ==
    /\ tpc[i] = "timer"
    /\ twait' = [twait EXCEPT ![i].wake = clock + (twait[i].timeToAct - twait[i].t),
                              ![i].t = 0]
    /\ tpc' = [tpc EXCEPT ![i] = "sleeping"]
    /\ UNCHANGED <<cfgVars, ctxVars, limVars, dpc, idx, semaphore, wg, tres,
                   resultsChan, finalResults, admitted, ctxAtCall, extracted, extractVars, retryVars, feedVars, overlapVars>>

\* the select of Wait: case <-ch (the reservation's time has come)
TimerFires(i) ==
    /\ tpc[i] = "sleeping"
    /\ clock >= twait[i].wake
    /\ tpc' = [tpc EXCEPT ![i] = "return"]
    /\ twait' = [twait EXCEPT ![i] = NoWait]
    /\ UNCHANGED <<cfgVars, ctxVars, limVars, dpc, idx, semaphore, wg, tres, admitted,
                   resultsChan, finalResults, ctxAtCall, extracted, extractVars, retryVars, feedVars, overlapVars>>

\* Wait returns nil and the task goes on to the extraction, now
WaitReturn(i) ==
    /\ tpc[i] = "return"
    /\ tpc' = [tpc EXCEPT ![i] = "extract"]
    /\ admitted' = Append(admitted, clock)
    /\ UNCHANGED <<cfgVars, ctxVars, limVars, dpc, idx, semaphore, wg, tres, twait,
                   resultsChan, finalResults, ctxAtCall, extracted, extractVars, retryVars, feedVars, overlapVars>>

\* the select of Wait: case <-ctx.Done()
WaitCanceled(i) ==
    /\ tpc[i] = "sleeping"
    /\ CtxDone
    /\ tpc' = [tpc EXCEPT ![i] = "cancel"]
    /\ UNCHANGED <<cfgVars, ctxVars, limVars, dpc, idx, semaphore, wg, tres, twait, admitted,
                   resultsChan, finalResults, ctxAtCall, extracted, extractVars, retryVars, feedVars, overlapVars>>

\* r.Cancel(): CancelAt is handed time.Now()
ReservationCancel(i) ==
    /\ tpc[i] = "cancel"
    /\ twait' = [twait EXCEPT ![i].t = clock]
    /\ tpc' = [tpc EXCEPT ![i] = "cancelAt"]
    /\ UNCHANGED <<cfgVars, ctxVars, limVars, dpc, idx, semaphore, wg, tres, admitted,
                   resultsChan, finalResults, ctxAtCall, extracted, extractVars, retryVars, feedVars, overlapVars>>

\* r.CancelAt(t) under lim.mu, with the t that r.Cancel read; return ctx.Err()
ReservationCancelAt(i) ==
    /\ tpc[i] = "cancelAt"
    /\ LET c == CancelAt(twait[i].timeToAct, twait[i].t)
       IN /\ limTokens' = c.tokens
          /\ limLast' = c.last
          /\ limLastEvent' = c.lastEvent
    /\ tres' = [tres EXCEPT ![i] = URLResult(urls[i], <<>>, WaitError(CtxErr))]
    /\ tpc' = [tpc EXCEPT ![i] = "send"]
    /\ twait' = [twait EXCEPT ![i] = NoWait]
    /\ UNCHANGED <<cfgVars, ctxVars, dpc, idx, semaphore, wg,
                   resultsChan, finalResults, admitted, ctxAtCall, extracted, extractVars, retryVars, feedVars, overlapVars>>

\* content, hasBodyFound, err := s.extractor.FetchAndExtractText(ctx, u)
Extract(i) ==
    /\ tpc[i] = "extract"
    /\ \E response \in ScrapeResponses :
          LET r == FetchAndExtractText(response)
          IN /\ extracted' = [extracted EXCEPT ![i] = r]
             /\ tres' = [tres EXCEPT ![i] = URLResult(urls[i], r.text, ExtractErr(r))]
    /\ tpc' = [tpc EXCEPT ![i] = "send"]
    /\ UNCHANGED <<cfgVars, ctxVars, limVars, dpc, idx, semaphore, wg, twait,
                   resultsChan, finalResults, admitted, ctxAtCall, extractVars, retryVars, feedVars, overlapVars>>

\* mutant: a task whose wait failed returns without sending its result
Send_DropWaitError(i) ==
    /\ tpc[i] = "send"
    /\ Len(resultsChan) < Len(urls)
    /\ resultsChan' = IF tres[i].Error.kind = "RateLimitWait" THEN resultsChan
                      ELSE Append(resultsChan, tres[i])
    /\ tpc' = [tpc EXCEPT ![i] = "release"]
    /\ UNCHANGED <<cfgVars, ctxVars, limVars, dpc, idx, semaphore, wg, tres, twait,
                   finalResults, admitted, ctxAtCall, extracted, extractVars, retryVars, feedVars, overlapVars>>

\* resultsChan <- types.URLResult{...}   (capacity len(urls))
Send(i) ==
    /\ tpc[i] = "send"
    /\ Len(resultsChan) < Len(urls)
    /\ resultsChan' = Append(resultsChan, tres[i])
    /\ tpc' = [tpc EXCEPT ![i] = "release"]
    /\ UNCHANGED <<cfgVars, ctxVars, limVars, dpc, idx, semaphore, wg, tres, twait,
                   finalResults, admitted, ctxAtCall, extracted, extractVars, retryVars, feedVars, overlapVars>>

\* the deferred call registered last runs first: defer func() { <-semaphore }()
ReleaseSlot(i) ==
    /\ tpc[i] = "release"
    /\ semaphore' = semaphore - 1
    /\ tpc' = [tpc EXCEPT ![i] = "wgDone"]
    /\ UNCHANGED <<cfgVars, ctxVars, limVars, dpc, idx, wg, tres, twait,
                   resultsChan, finalResults, admitted, ctxAtCall, extracted, extractVars, retryVars, feedVars, overlapVars>>

\* then the deferred call registered first: defer wg.Done()
WgDone(i) ==
    /\ tpc[i] = "wgDone"
    /\ wg' = wg - 1
    /\ tpc' = [tpc EXCEPT ![i] = "finished"]
    /\ UNCHANGED <<cfgVars, ctxVars, limVars, dpc, idx, semaphore, tres, twait,
                   resultsChan, finalResults, admitted, ctxAtCall, extracted, extractVars, retryVars, feedVars, overlapVars>>

(***************************************************************************)
(* Environment: the context and the clock                                  *)
(***************************************************************************)
Running == dpc \in {"loop", "acquire", "spawn"}

\* the caller's cancel()
Cancel ==
    /\ Running
    /\ ctxState = "live"
    /\ ctxState' = "canceled"
    /\ UNCHANGED <<cfgVars, ctxDeadline, clock, limVars, dpc, idx, semaphore, wg, tpc, tres,
                   twait, resultsChan, finalResults, admitted, ctxAtCall, extracted, extractVars, retryVars, feedVars, overlapVars>>

\* the timer of a context with a deadline closes Done, at the deadline or later
DeadlineExpires ==
    /\ Running
    /\ ctxState = "live"
    /\ ctxDeadline # NoDeadline
    /\ clock >= ctxDeadline
    /\ ctxState' = "deadline"
    /\ UNCHANGED <<cfgVars, ctxDeadline, clock, limVars, dpc, idx, semaphore, wg, tpc, tres,
                   twait, resultsChan, finalResults, admitted, ctxAtCall, extracted, extractVars, retryVars, feedVars, overlapVars>>

\* one tick passes, whatever the goroutines are doing: a goroutine may be
\* scheduled late and a timer that is due may fire late.  Past MaxTime the
\* clock moves only as far as a sleeping task's reservation needs.
Tick ==
    /\ Running
    /\ \/ clock < MaxTime
       \/ \E i \in Tasks : tpc[i] = "sleeping" /\ twait[i].wake > clock
    /\ clock' = clock + 1
    /\ UNCHANGED <<cfgVars, ctxState, ctxDeadline, limVars, dpc, idx, semaphore, wg, tpc, tres,
                   twait, resultsChan, finalResults, admitted, ctxAtCall, extracted, extractVars, retryVars, feedVars, overlapVars>>

Next ==
    \/ Begin
    \/ BeginTicker
    \/ WgAdd
    \/ Acquire
    \/ Spawn
    \/ Return
    \/ \E i \in Tasks : WaitNow(i)
    \/ \E i \in Tasks : WaitCtxCheck(i)
    \/ \E i \in Tasks : WaitReserve(i)
    \/ \E i \in Tasks : WaitTimer(i)
    \/ \E i \in Tasks : TimerFires(i)
    \/ \E i \in Tasks : WaitReturn(i)
    \/ \E i \in Tasks : WaitCanceled(i)
    \/ \E i \in Tasks : ReservationCancel(i)
    \/ \E i \in Tasks : ReservationCancelAt(i)
    \/ \E i \in Tasks : Extract(i)
    \/ \E i \in Tasks : Send(i)
    \/ \E i \in Tasks : ReleaseSlot(i)
    \/ \E i \in Tasks : WgDone(i)
    \/ Cancel
    \/ DeadlineExpires
    \/ Tick

Spec == Init /\ [][Next]_vars

TypeOK ==
    /\ semaphore \in 0..maxConcurrency
    /\ wg \in 0..Len(urls)
    /\ clock \in 0..(MaxTime + Len(urls) * Len(urls) * rateLimit)

\* Spec with fair scheduling: the calling goroutine and every spawned goroutine
\* keep running, timers fire, time passes, and every FetchAndExtractText call
\* returns; cancel() is the caller's choice and is not forced
SpecLive ==
    /\ Init
    /\ [][Next]_vars
    /\ WF_vars(Begin)
    /\ WF_vars(BeginTicker)
    /\ WF_vars(WgAdd)
    /\ WF_vars(Acquire)
    /\ WF_vars(Spawn)
    /\ WF_vars(Return)
    /\ WF_vars(DeadlineExpires)
    /\ WF_vars(Tick)
    /\ \A i \in 1..MaxUrls :
          /\ WF_vars(i \in Tasks /\ WaitNow(i))
          /\ WF_vars(i \in Tasks /\ WaitCtxCheck(i))
          /\ WF_vars(i \in Tasks /\ WaitReserve(i))
          /\ WF_vars(i \in Tasks /\ WaitTimer(i))
          /\ WF_vars(i \in Tasks /\ TimerFires(i))
          /\ WF_vars(i \in Tasks /\ WaitReturn(i))
          /\ WF_vars(i \in Tasks /\ ReservationCancel(i))
          /\ WF_vars(i \in Tasks /\ ReservationCancelAt(i))
          /\ WF_vars(i \in Tasks /\ Extract(i))
          /\ WF_vars(i \in Tasks /\ Send(i))
          /\ WF_vars(i \in Tasks /\ ReleaseSlot(i))
          /\ WF_vars(i \in Tasks /\ WgDone(i))

(***************************************************************************)
(* SpecExtract: NewExtractor and FetchAndExtractText on bounded documents  *)
(***************************************************************************)
Text20 == [i \in 1..MinParagraphLength |-> "a"]
PaddedA == <<" ", "a", "\t", "\n", "b", "\n">>
\* the <title> of the page: none, empty, blank, padded
HeadChoices == {<<>>, <<TitleElem(<<>>)>>, <<TitleElem(<<"U3000", "\n">>)>>, <<TitleElem(PaddedA)>>}
TableElem(caption, cell) ==
    Elem("table", "", <<Elem("caption", "", <<TextNode(caption)>>),
                        Elem("tr", "", <<Elem("th", "", <<TextNode(cell)>>),
                                         Elem("td", "", <<TextNode(cell)>>)>>)>>)
BodyElems ==
    LET Head3 == [i \in 1..MinHeadingLength |-> "a"]
        Head4 == [i \in 1..(MinHeadingLength + 1) |-> "a"]
        \* non-ASCII text: 7 characters in 21 bytes, 2 characters in 6 bytes
        WideText == [i \in 1..((MinParagraphLength + 1) \div 3) |-> "U3042"]
        WideHead == [i \in 1..((MinHeadingLength + 3) \div 3) |-> "U3042"]
    IN
    {Para(TextA), Para(Text20), Para(LongText), Para(<<>>), Para(titlePrefix \o TextA),
     Elem("h1", "", <<TextNode(Head3)>>), Elem("h2", "", <<TextNode(Head4)>>),
     Elem("li", "", <<TextNode(TextA)>>),
     Elem("blockquote", "", <<TextNode(PaddedA)>>),
     TableElem(TextA, PaddedA), Elem("table", "", <<>>),
     Elem("pre", "", <<TextNode(PaddedA)>>), Elem("pre", "", <<TextNode(<<"U00A0", "\r", "\n">>)>>),
     Elem("div", ".comments", <<Para(LongText)>>),
     Elem("div", "", <<TextNode(LongText)>>),
     Elem("li", "", <<Para(LongText)>>),
     Elem("blockquote", "", <<TextNode(LongText), Elem("pre", "", <<TextNode(TextA)>>)>>),
     Para(WideText), Elem("h3", "", <<TextNode(WideHead)>>),
     Elem("table", "", <<Elem("tr", "", <<Elem("td", "", <<>>), Elem("td", "", <<>>)>>)>>),
     Elem("table", "", <<Elem("tr", "", <<>>), Elem("tr", "", <<>>)>>),
     Elem("li", "", <<TextNode(<<"U00A0">>)>>),
     Elem("li", "", <<TextNode(titlePrefix \o <<"a">>)>>),
     Elem("nav", "", <<Para(LongText)>>),
     Elem("div", ".sidebar", <<Elem("pre", "", <<TextNode(TextA)>>)>>)}
\* the body is the element list itself, one <main> around it, or a
\* <div id="content"> with the first element followed by an <article> with the rest
Wrap(w, kids) ==
    IF w = "main" THEN <<Elem("main", "", kids)>>
    ELSE IF w = "content-article"
         THEN <<Elem("div", "#content", IF kids = <<>> THEN <<>> ELSE <<Head(kids)>>),
                Elem("article", "", IF kids = <<>> THEN <<>> ELSE Tail(kids))>>
         ELSE kids
\* every title choice with the plain and the <main> body; the split body
\* without a title and with the padded title
HeadWraps ==
    (HeadChoices \X {"none", "main"})
    \cup ({<<>>, <<TitleElem(PaddedA)>>} \X {"content-article"})
ExtractDocs ==
    {Document(hw[1], Wrap(hw[2], kids)) :
        hw \in HeadWraps, kids \in SeqsUpTo(BodyElems, MaxBodyElems)}

\* the fetchers handed to NewExtractor
Fetchers == {"nil", "mock"}

InitExtract ==
    /\ variant = "limiter"
    /\ urls = <<>>
    /\ maxConcurrency = DefaultMaxConcurrency
    /\ rateLimit = DefaultScrapeRateLimit
    /\ ctxState = "live"
    /\ ctxDeadline = NoDeadline
    /\ clock = 0
    /\ limTokens = rateLimit
    /\ limLast = 0
    /\ limLastEvent = 0
    /\ dpc = "idle"
    /\ idx = 1
    /\ semaphore = 0
    /\ wg = 0
    /\ tpc = <<>>
    /\ tres = <<>>
    /\ twait = <<>>
    /\ resultsChan = <<>>
    /\ finalResults = <<>>
    /\ admitted = <<>>
    /\ ctxAtCall = "unset"
    /\ extracted = <<>>
    /\ doc = <<>>
    /\ xpc = "new"
    /\ xparts = <<>>
    /\ xres = <<>>
    /\ fetcher \in Fetchers
    /\ extractor = NilExtractor
    /\ newErr = "nil"
    /\ fetchCalls = 0
    /\ RetryIdle
    /\ FeedIdle
    /\ OverlapIdle

\* extractor, err := extract.NewExtractor(fetcher)
NewExtractorStep ==
    /\ xpc = "new"
    /\ LET made == NewExtractor(fetcher)
       IN /\ extractor' = made.extractor
          /\ newErr' = made.err
          /\ xpc' = IF made.err = "nil" THEN "constructed" ELSE "rejected"
    /\ UNCHANGED <<scraperVars, retryVars, feedVars, overlapVars, doc, xparts, xres, fetcher, fetchCalls>>

\* FetchAndExtractText up to the call of extractContentText: the fetcher
\* returns an error, or bytes that parse to a document
FetchStep ==
    /\ xpc = "constructed"
    /\ fetchCalls' = fetchCalls + 1
    /\ \/ /\ xres' = FetchAndExtractText(FetchError)
          /\ xpc' = "failed"
          /\ doc' = doc
       \/ \E d \in ExtractDocs :
             /\ doc' = FetchOk(d).doc
             /\ xpc' = "start"
             /\ xres' = xres
    /\ UNCHANGED <<scraperVars, retryVars, feedVars, overlapVars, xparts, fetcher, extractor, newErr>>

\* extractContentText up to the call of validateAndFormatResult
CollectStep ==
    /\ xpc = "start"
    /\ xparts' = ExtractParts(doc)
    /\ xpc' = "validate"
    /\ UNCHANGED <<scraperVars, retryVars, feedVars, overlapVars, doc, xres, fetcher, extractor, newErr, fetchCalls>>

\* return e.validateAndFormatResult(parts)
ValidateStep ==
    /\ xpc = "validate"
    /\ xres' = validateAndFormatResult(xparts)
    /\ xpc' = "returned"
    /\ UNCHANGED <<scraperVars, retryVars, feedVars, overlapVars, doc, xparts, fetcher, extractor, newErr, fetchCalls>>

NextExtract ==
    \/ NewExtractorStep
    \/ FetchStep
    \/ CollectStep
    \/ ValidateStep

SpecExtract == InitExtract /\ [][NextExtract]_vars

(***************************************************************************)
(* SpecRetry: one retry.Do call (pkg/retry/retry.go, and the older source  *)
(* in part_003) on backoff.Retry with WithMaxRetries and WithContext.      *)
(* An error is its chain of messages, outermost first, the attempt that    *)
(* produced the innermost error, whether errors.Is finds a context error   *)
(* in it, and whether it is a *backoff.PermanentError.                     *)
(***************************************************************************)
MaxRetriesBound == 2
RetryVariants == {"retry.go", "part_003"}
\* what httpClient.Do gives one attempt of Client.doFetch: a network error, a
\* request timeout, or a response with a status code, a Content-Length and a
\* body whose reading may fail (with a plain error or with the request timeout)
StatusCodes == {200, 299, 300, 404, 499, 500, 599, 600}
MaxResponseBodySize == 25 * 1024 * 1024
HTTPResponses ==
    [StatusCode : StatusCodes,
     ContentLength : {0 - 1, 0, MaxResponseBodySize, MaxResponseBodySize + 1},
     readErr : {"nil", "read", "timeout"}]
\* one attempt of doFetch: http.NewRequestWithContext fails (a URL that does
\* not parse), httpClient.Do fails, or Do returns a response
FetchAttempts ==
    LET NoResponse == [StatusCode |-> 0, ContentLength |-> 0, readErr |-> "nil"]
    IN {[requestErr |-> TRUE, doErr |-> "nil", resp |-> NoResponse]}
       \cup {[requestErr |-> FALSE, doErr |-> e, resp |-> NoResponse] :
                 e \in {"network", "timeout"}}
       \cup {[requestErr |-> FALSE, doErr |-> "nil", resp |-> r] : r \in HTTPResponses}
\* handleResponse: a plain error for a declared body over MaxResponseBodySize
\* and for a body that cannot be read (it wraps the read error), then nil for
\* 2xx, a plain error for 5xx, else NonRetryableHTTPError
handleResponse(resp) ==
    IF resp.ContentLength > 0 /\ resp.ContentLength > MaxResponseBodySize THEN "bodyTooLarge"
    ELSE IF resp.readErr = "timeout" THEN "readBodyTimeout"
    ELSE IF resp.readErr # "nil" THEN "readBody"
    ELSE IF resp.StatusCode >= 200 /\ resp.StatusCode < 300 THEN "nil"
    ELSE IF resp.StatusCode >= 500 /\ resp.StatusCode <= 599 THEN "5xx"
    ELSE "NonRetryableHTTPError"
\* the errors in which errors.Is finds context.DeadlineExceeded
WrapsContextError(err) == err \in {"timeout", "readBodyTimeout"}
\* Client.isHTTPRetryableError on the error of doFetch
isHTTPRetryableError(err) ==
    IF err = "nil" THEN FALSE
    ELSE IF WrapsContextError(err) THEN TRUE
    ELSE IF err = "NonRetryableHTTPError" THEN FALSE
    ELSE TRUE
\* one attempt of FetchDocument as an outcome of op
doFetch(attempt) ==
    LET err == IF attempt.requestErr THEN "newRequest"
               ELSE IF attempt.doErr # "nil" THEN attempt.doErr
               ELSE handleResponse(attempt.resp)
    IN IF err = "nil" THEN "ok"
       ELSE IF ~isHTTPRetryableError(err) THEN "fatal"
       ELSE IF WrapsContextError(err) THEN "retryableCtx"
       ELSE "retryable"
\* what one invocation of op returns: nil, an error the predicate accepts, an
\* accepted error that wraps context.DeadlineExceeded (a request timeout),
\* an error the predicate rejects (the outcomes of doFetch), and, for an op
\* that returns backoff.Permanent(err) itself, that error with a predicate
\* that accepts it ("permanent") or rejects it ("permanentFatal")
OpOutcomes ==
    {doFetch(attempt) : attempt \in FetchAttempts} \cup {"permanent", "permanentFatal"}
\* the should-retry predicate on the error of an outcome
ShouldRetry(outcome) == outcome \notin {"fatal", "permanentFatal"}
\* ctx.Err()
CtxError(state) == [chain |-> <<state>>, attempt |-> 0, isCtx |-> TRUE, permanent |-> FALSE]
\* fmt.Errorf("<message>: %w", err)
Wrapf(message, err) ==
    [chain |-> <<message>> \o err.chain, attempt |-> err.attempt, isCtx |-> err.isCtx,
     permanent |-> FALSE]
\* backoff.Permanent(err): a *PermanentError around err, a link "Permanent"
\* of the chain
Permanent(err) ==
    [chain |-> <<"Permanent">> \o err.chain, attempt |-> err.attempt, isCtx |-> err.isCtx,
     permanent |-> TRUE]
\* errors.As(err, &permanent): some link of the chain is a *PermanentError
AsPermanent(err) == \E k \in 1..Len(err.chain) : err.chain[k] = "Permanent"
\* the Err field of the first *PermanentError of the chain (err itself when
\* there is none), which Retry returns and retry.Do unwraps
PermanentErr(err) ==
    IF ~AsPermanent(err) THEN err
    ELSE LET k == CHOOSE j \in 1..Len(err.chain) :
                     /\ err.chain[j] = "Permanent"
                     /\ \A h \in 1..(j - 1) : err.chain[h] # "Permanent"
             rest == SubSeq(err.chain, k + 1, Len(err.chain))
         IN [chain |-> rest, attempt |-> err.attempt, isCtx |-> err.isCtx,
             permanent |-> rest[1] = "Permanent"]
\* the error of the k-th invocation of op
OpError(k, outcome) ==
    IF outcome \in {"permanent", "permanentFatal"}
    THEN Permanent([chain |-> <<"permanent error">>, attempt |-> k, isCtx |-> FALSE,
                    permanent |-> FALSE])
    ELSE [chain |-> <<outcome>>, attempt |-> k, isCtx |-> outcome = "retryableCtx",
          permanent |-> FALSE]

\* lastErr after retryableOp saw the error e (part_003 keeps no lastErr)
LastErrAfter(v, e, retry, lastErr) ==
    IF v = "retry.go" THEN Wrapf(IF retry THEN "transient" ELSE "fatal", e) ELSE lastErr
\* mutant: a rejected error is returned like an accepted one, not as Permanent
RetryableOp_NeverPermanent(v, e, retry) ==
    IF v = "retry.go" THEN LastErrAfter(v, e, retry, NoError) ELSE e

\* what retryableOp returns to backoff.Retry for the error e of op
RetryableOp(v, e, retry) ==
    LET wrapped == IF v = "retry.go" THEN LastErrAfter(v, e, retry, NoError) ELSE e
    IN IF retry THEN wrapped ELSE Permanent(wrapped)

\* mutant: the retries are used up one attempt early
TriesStop_OneLess(maxTries, numTries) == maxTries = 0 \/ maxTries <= numTries + 1

\* backOffTries.NextBackOff returns Stop
TriesStop(maxTries, numTries) == maxTries = 0 \/ maxTries <= numTries

\* mutant: retry.Do has no branch for context errors
DoResult_NoCtxBranch(v, err, lastErr) ==
    IF err = NoError THEN NoError
    ELSE IF err.permanent THEN PermanentErr(err)
    ELSE Wrapf("maxRetries", IF v = "retry.go" THEN lastErr ELSE err)

\* the error retry.Do builds from the value of backoff.Retry
DoResult(v, err, lastErr) ==
    IF err = NoError THEN NoError
    ELSE IF v = "retry.go"
         THEN (IF err.isCtx THEN Wrapf("ctx", err)
               ELSE IF err.permanent THEN PermanentErr(err)
               ELSE Wrapf("maxRetries", lastErr))
         ELSE (IF err.permanent THEN Wrapf("fatal", PermanentErr(err))
               ELSE IF err.isCtx THEN Wrapf("ctx", err)
               ELSE Wrapf("maxRetries", err))

\* no ScrapeInParallel call is running
ScraperIdle ==
    /\ variant = "limiter"
    /\ urls = <<>>
    /\ maxConcurrency = DefaultMaxConcurrency
    /\ rateLimit = DefaultScrapeRateLimit
    /\ ctxState = "live"
    /\ ctxDeadline = NoDeadline
    /\ clock = 0
    /\ limTokens = rateLimit
    /\ limLast = 0
    /\ limLastEvent = 0
    /\ dpc = "idle"
    /\ idx = 1
    /\ semaphore = 0
    /\ wg = 0
    /\ tpc = <<>>
    /\ tres = <<>>
    /\ twait = <<>>
    /\ resultsChan = <<>>
    /\ finalResults = <<>>
    /\ admitted = <<>>
    /\ ctxAtCall = "unset"
    /\ extracted = <<>>
\* no extraction is running
ExtractIdle ==
    /\ doc = <<>>
    /\ xpc = "idle"
    /\ xparts = <<>>
    /\ xres = <<>>
    /\ fetcher = "mock"
    /\ extractor = Extractor("mock")
    /\ newErr = "nil"
    /\ fetchCalls = 0

\* retry.Do has built the policy and backoff.Retry is about to invoke op;
\* the context may be done before the first attempt
InitRetry ==
    /\ ScraperIdle
    /\ ExtractIdle
    /\ FeedIdle
    /\ OverlapIdle
    /\ rvariant \in RetryVariants
    /\ rmax \in 0..MaxRetriesBound
    /\ rctx \in {"live", "canceled", "deadline"}
    /\ rpc = "op"
    /\ rcalls = <<>>
    /\ rnumTries = 0
    /\ relapsed = FALSE
    /\ rlastErr = NoError
    /\ rerr = NoError
    /\ rresult = NoError

\* err = operation(): nil ends Retry, a *PermanentError ends it with its Err
OpStep ==
    /\ rpc = "op"
    /\ \E outcome \in OpOutcomes :
          LET e == OpError(Len(rcalls) + 1, outcome)
              retry == ShouldRetry(outcome)
              returned == RetryableOp(rvariant, e, retry)
          IN /\ rcalls' = Append(rcalls, outcome)
             /\ IF outcome = "ok"
                THEN /\ rerr' = NoError
                     /\ rlastErr' = rlastErr
                     /\ rpc' = "classify"
                ELSE /\ rlastErr' = LastErrAfter(rvariant, e, retry, rlastErr)
                     /\ rerr' = PermanentErr(returned)
                     /\ rpc' = IF AsPermanent(returned) THEN "classify" ELSE "nextBackOff"
    /\ UNCHANGED <<scraperVars, extractVars, feedVars, overlapVars, rvariant, rmax, rctx, rnumTries, relapsed, rresult>>

\* next = b.NextBackOff(): Stop when the context is done, the retries are
\* used up or MaxElapsedTime has passed; on Stop Retry returns ctx.Err() if
\* there is one and else the last error
NextBackOffStep ==
    /\ rpc = "nextBackOff"
    /\ IF rctx # "live"
       THEN /\ rerr' = CtxError(rctx)
            /\ rpc' = "classify"
            /\ rnumTries' = rnumTries
       ELSE IF TriesStop(rmax, rnumTries)
            THEN /\ rpc' = "classify"
                 /\ UNCHANGED <<rerr, rnumTries>>
            ELSE /\ rnumTries' = rnumTries + 1
                 /\ rpc' = IF relapsed THEN "classify" ELSE "wait"
                 /\ rerr' = rerr
    /\ UNCHANGED <<scraperVars, extractVars, feedVars, overlapVars, rvariant, rmax, rctx, rcalls, relapsed,
                   rlastErr, rresult>>

\* case <-t.C(): the backoff interval is over
RetryTimerFires ==
    /\ rpc = "wait"
    /\ rpc' = "op"
    /\ UNCHANGED <<scraperVars, extractVars, feedVars, overlapVars, rvariant, rmax, rctx, rcalls, rnumTries,
                   relapsed, rlastErr, rerr, rresult>>

\* case <-ctx.Done(): return ctx.Err()
RetryCtxDone ==
    /\ rpc = "wait"
    /\ rctx # "live"
    /\ rerr' = CtxError(rctx)
    /\ rpc' = "classify"
    /\ UNCHANGED <<scraperVars, extractVars, feedVars, overlapVars, rvariant, rmax, rctx, rcalls, rnumTries,
                   relapsed, rlastErr, rresult>>

\* the if err != nil block of retry.Do
ClassifyStep ==
    /\ rpc = "classify"
    /\ rresult' = DoResult(rvariant, rerr, rlastErr)
    /\ rpc' = "returned"
    /\ UNCHANGED <<scraperVars, extractVars, feedVars, overlapVars, rvariant, rmax, rctx, rcalls, rnumTries,
                   relapsed, rlastErr, rerr>>

\* the caller cancels ctx or its deadline passes while retry.Do runs
RetryCancel ==
    /\ rpc \in {"op", "nextBackOff", "wait"}
    /\ rctx = "live"
    /\ rctx' \in {"canceled", "deadline"}
    /\ UNCHANGED <<scraperVars, extractVars, feedVars, overlapVars, rvariant, rmax, rpc, rcalls, rnumTries,
                   relapsed, rlastErr, rerr, rresult>>

\* the attempts and waits have taken longer than the MaxElapsedTime of
\* backoff.NewExponentialBackOff()
ElapsedTimePasses ==
    /\ rpc \in {"op", "wait"}
    /\ ~relapsed
    /\ relapsed' = TRUE
    /\ UNCHANGED <<scraperVars, extractVars, feedVars, overlapVars, rvariant, rmax, rctx, rpc, rcalls, rnumTries,
                   rlastErr, rerr, rresult>>

NextRetry ==
    \/ OpStep
    \/ NextBackOffStep
    \/ RetryTimerFires
    \/ RetryCtxDone
    \/ ClassifyStep
    \/ RetryCancel
    \/ ElapsedTimePasses

SpecRetry == InitRetry /\ [][NextRetry]_vars


(***************************************************************************)
(* SpecFeed: feed.GetAllLinks and FeedAdapter.GetLinks                     *)
(***************************************************************************)
MaxItems == 3
LinkValues == {"", "http://example.com/a", "http://example.com/b"}
LinkSources ==
    LET ItemLists == {[k \in 1..Len(ls) |-> Item(ls[k])] : ls \in SeqsUpTo(LinkValues, MaxItems)}
    IN
    {NilSource, NewFeedAdapter(NilFeed)}
    \cup {NewFeedAdapter(Feed(items)) : items \in ItemLists}
    \cup {MockLinkSource(ls) : ls \in SeqsUpTo(LinkValues \ {""}, 2)}

\* mutant: the loop appends every link
appendLink_KeepEmpty(us, item) == Append(us, item.Link)

\* the body of the range loop of GetLinks
appendLink(us, item) ==
    IF item.Link # "" THEN Append(us, item.Link) ELSE us

\* a caller is about to call GetAllLinks on any source, or GetLinks on an adapter
InitFeed ==
    /\ ScraperIdle
    /\ ExtractIdle
    /\ RetryIdle
    /\ OverlapIdle
    /\ fsource \in LinkSources
    /\ fpc \in {"GetAllLinks", "GetLinks"}
    /\ fpc = "GetLinks" => fsource.kind = "FeedAdapter"
    /\ fidx = 0
    /\ furls = <<>>
    /\ fresult = <<>>

\* feed.GetAllLinks: the empty slice for a nil source, else source.GetLinks()
GetAllLinks ==
    /\ fpc = "GetAllLinks"
    /\ IF fsource.kind = "nil"
          THEN fpc' = "returned" /\ fresult' = <<>>
          ELSE fpc' = "GetLinks" /\ UNCHANGED fresult
    /\ UNCHANGED <<scraperVars, extractVars, retryVars, overlapVars, fsource, fidx, furls>>

\* MockLinkSource.GetLinks returns its Links
MockGetLinks ==
    /\ fpc = "GetLinks"
    /\ fsource.kind = "MockLinkSource"
    /\ fresult' = fsource.Links
    /\ fpc' = "returned"
    /\ UNCHANGED <<scraperVars, extractVars, retryVars, overlapVars, fsource, fidx, furls>>

\* FeedAdapter.GetLinks up to the loop: the nil / no-items guard, then make
GetLinks ==
    /\ fpc = "GetLinks"
    /\ fsource.kind = "FeedAdapter"
    /\ IF fsource.Feed.isNil \/ Len(fsource.Feed.Items) = 0
          THEN fpc' = "returned" /\ fresult' = <<>> /\ UNCHANGED <<fidx, furls>>
          ELSE fpc' = "range" /\ furls' = <<>> /\ fidx' = 1 /\ UNCHANGED fresult
    /\ UNCHANGED <<scraperVars, extractVars, retryVars, overlapVars, fsource>>

\* one iteration of the range loop
RangeItem ==
    /\ fpc = "range"
    /\ fidx <= Len(fsource.Feed.Items)
    /\ furls' = appendLink(furls, fsource.Feed.Items[fidx])
    /\ fidx' = fidx + 1
    /\ UNCHANGED <<scraperVars, extractVars, retryVars, overlapVars, fsource, fpc, fresult>>

\* return urls
ReturnUrls ==
    /\ fpc = "range"
    /\ fidx > Len(fsource.Feed.Items)
    /\ fresult' = furls
    /\ fpc' = "returned"
    /\ UNCHANGED <<scraperVars, extractVars, retryVars, overlapVars, fsource, fidx, furls>>

NextFeed == GetAllLinks \/ MockGetLinks \/ GetLinks \/ RangeItem \/ ReturnUrls

SpecFeed == InitFeed /\ [][NextFeed]_vars


(***************************************************************************)
(* SpecOverlap: two ScrapeInParallel calls that overlap on one scraper.    *)
(* The instance fields (maxConcurrency, rateLimit, the limiter) are the    *)
(* shared variables; resultsChan, semaphore and wg are locals of each call *)
(* and live in calls[c].  The context stays live and results are not kept. *)
(***************************************************************************)
Calls == {1, 2}
CallUrls == {SubSeq(<<"u1", "u2", "u1", "u2">>, 1, n) : n \in 0..MaxUrls}

\* the locals of a ScrapeInParallel call that has not run yet
NewCall(us) ==
    [urls |-> us, dpc |-> "call", idx |-> 1, semaphore |-> 0, wg |-> 0,
     tpc |-> [i \in 1..Len(us) |-> "unspawned"],
     twait |-> [i \in 1..Len(us) |-> NoWait]]

callVars == <<dpc, idx, semaphore, wg, tpc, tres, twait, resultsChan, finalResults,
              ctxAtCall, extracted>>
CallTasks(c) == 1..Len(calls[c].urls)

InitOverlap ==
    /\ variant \in {"limiter", "ticker"}
    /\ \E mc \in {0 - 1, 0, 1}, rl \in {0 - 1, 0, 3} :
          LET s == IF variant = "limiter" THEN NewParallelScraper(mc, rl)
                   ELSE NewParallelScraperTicker(mc)
          IN /\ maxConcurrency = s.maxConcurrency
             /\ rateLimit = s.rateLimit
    /\ urls = <<>>
    /\ ctxState = "live"
    /\ ctxDeadline = NoDeadline
    /\ clock = 0
    /\ limTokens = rateLimit
    /\ limLast = 0
    /\ limLastEvent = 0
    /\ dpc = "idle"
    /\ idx = 1
    /\ semaphore = 0
    /\ wg = 0
    /\ tpc = <<>>
    /\ tres = <<>>
    /\ twait = <<>>
    /\ resultsChan = <<>>
    /\ finalResults = <<>>
    /\ admitted = <<>>
    /\ ctxAtCall = "unset"
    /\ extracted = <<>>
    /\ ExtractIdle
    /\ RetryIdle
    /\ FeedIdle
    \* two calls with at most MaxUrls + 1 tasks together, up to renaming of
    \* the calls: the first has the longer list
    /\ calls \in {cs \in [Calls -> {NewCall(us) : us \in CallUrls}] :
                     /\ Len(cs[1].urls) >= Len(cs[2].urls)
                     /\ Len(cs[1].urls) + Len(cs[2].urls) <= MaxUrls + 1}

\* make(resultsChan); semaphore := make(chan struct{}, s.maxConcurrency)
OverlapBegin(c) ==
    /\ calls[c].dpc = "call"
    /\ variant = "limiter"
    /\ calls' = [calls EXCEPT ![c].dpc = "loop", ![c].semaphore = 0]
    /\ UNCHANGED <<cfgVars, ctxVars, limVars, callVars, admitted,
                   extractVars, retryVars, feedVars>>

\* time.Ticker variant: time.NewTicker(s.rateLimit) panics on a non-positive interval
OverlapBeginTicker(c) ==
    /\ calls[c].dpc = "call"
    /\ variant = "ticker"
    /\ rateLimit <= 0
    /\ calls' = [calls EXCEPT ![c].dpc = "panicked"]
    /\ UNCHANGED <<cfgVars, ctxVars, limVars, callVars, admitted,
                   extractVars, retryVars, feedVars>>

\* for _, url := range urls { wg.Add(1)
OverlapWgAdd(c) ==
    /\ calls[c].dpc = "loop"
    /\ calls[c].idx <= Len(calls[c].urls)
    /\ calls' = [calls EXCEPT ![c].wg = @ + 1, ![c].dpc = "acquire"]
    /\ UNCHANGED <<cfgVars, ctxVars, limVars, callVars, admitted,
                   extractVars, retryVars, feedVars>>

\* semaphore <- struct{}{}   (the call's own channel; blocks while it is full)
OverlapAcquire(c) ==
    /\ calls[c].dpc = "acquire"
    /\ calls[c].semaphore < maxConcurrency
    /\ calls' = [calls EXCEPT ![c].semaphore = @ + 1, ![c].dpc = "spawn"]
    /\ UNCHANGED <<cfgVars, ctxVars, limVars, callVars, admitted,
                   extractVars, retryVars, feedVars>>

\* go func(u string) {...}(url)
OverlapSpawn(c) ==
    /\ calls[c].dpc = "spawn"
    /\ calls' = [calls EXCEPT ![c].tpc[calls[c].idx] = "limiter",
                              ![c].idx = @ + 1, ![c].dpc = "loop"]
    /\ UNCHANGED <<cfgVars, ctxVars, limVars, callVars, admitted,
                   extractVars, retryVars, feedVars>>

\* wg.Wait(); close(resultsChan); range resultsChan; return finalResults
OverlapReturn(c) ==
    /\ calls[c].dpc = "loop"
    /\ calls[c].idx > Len(calls[c].urls)
    /\ calls[c].wg = 0
    /\ calls' = [calls EXCEPT ![c].dpc = "done"]
    /\ UNCHANGED <<cfgVars, ctxVars, limVars, callVars, admitted,
                   extractVars, retryVars, feedVars>>

\* s.limiter.Wait(ctx): WaitN hands time.Now() to wait; the context is live,
\* so the test of ctx.Done() lets the task pass
OverlapWaitNow(c, i) ==
    /\ calls[c].tpc[i] = "limiter"
    /\ calls' = [calls EXCEPT ![c].tpc[i] = "reserve", ![c].twait[i].t = clock]
    /\ UNCHANGED <<cfgVars, ctxVars, limVars, callVars, admitted, extractVars, retryVars, feedVars>>

\* wait: r := lim.reserveN(t, n, InfDuration) on the limiter of the instance,
\* with the t read when Wait was entered
OverlapWaitReserve(c, i) ==
    /\ calls[c].tpc[i] = "reserve"
    /\ LET t == calls[c].twait[i].t
           r == ReserveN(t, InfDuration)
       IN /\ limLast' = t
          /\ limTokens' = r.tokens
          /\ limLastEvent' = r.timeToAct
          /\ IF r.timeToAct = t
             THEN calls' = [calls EXCEPT ![c].tpc[i] = "return", ![c].twait[i] = NoWait]
             ELSE calls' = [calls EXCEPT ![c].tpc[i] = "timer",
                                         ![c].twait[i].timeToAct = r.timeToAct]
    /\ UNCHANGED <<cfgVars, ctxVars, callVars, admitted, extractVars, retryVars, feedVars>>

\* wait: delay := r.DelayFrom(t); time.NewTimer(delay), started now
\* (wait does not read t again)
OverlapWaitTimer(c, i) ==
    /\ calls[c].tpc[i] = "timer"
    /\ calls' = [calls EXCEPT ![c].tpc[i] = "sleeping",
                              ![c].twait[i] =
                                  [t |-> 0, timeToAct |-> @.timeToAct,
                                   wake |-> clock + (@.timeToAct - @.t)]]
    /\ UNCHANGED <<cfgVars, ctxVars, limVars, callVars, admitted, extractVars, retryVars, feedVars>>

\* the select of Wait: case <-ch (the reservation's time has come)
OverlapTimerFires(c, i) ==
    /\ calls[c].tpc[i] = "sleeping"
    /\ clock >= calls[c].twait[i].wake
    /\ calls' = [calls EXCEPT ![c].tpc[i] = "return", ![c].twait[i] = NoWait]
    /\ UNCHANGED <<cfgVars, ctxVars, limVars, callVars, admitted, extractVars, retryVars, feedVars>>

\* Wait returns nil and the task goes on to the extraction, now
OverlapWaitReturn(c, i) ==
    /\ calls[c].tpc[i] = "return"
    /\ calls' = [calls EXCEPT ![c].tpc[i] = "extract"]
    /\ admitted' = Append(admitted, clock)
    /\ UNCHANGED <<cfgVars, ctxVars, limVars, callVars, extractVars, retryVars, feedVars>>

\* FetchAndExtractText(ctx, u); resultsChan <- types.URLResult{...}
OverlapExtract(c, i) ==
    /\ calls[c].tpc[i] = "extract"
    /\ calls' = [calls EXCEPT ![c].tpc[i] = "release"]
    /\ UNCHANGED <<cfgVars, ctxVars, limVars, callVars, admitted,
                   extractVars, retryVars, feedVars>>

\* the deferred call registered last runs first: defer func() { <-semaphore }()
OverlapReleaseSlot(c, i) ==
    /\ calls[c].tpc[i] = "release"
    /\ calls' = [calls EXCEPT ![c].semaphore = @ - 1, ![c].tpc[i] = "wgDone"]
    /\ UNCHANGED <<cfgVars, ctxVars, limVars, callVars, admitted,
                   extractVars, retryVars, feedVars>>

\* then the deferred call registered first: defer wg.Done()
OverlapWgDone(c, i) ==
    /\ calls[c].tpc[i] = "wgDone"
    /\ calls' = [calls EXCEPT ![c].wg = @ - 1, ![c].tpc[i] = "finished"]
    /\ UNCHANGED <<cfgVars, ctxVars, limVars, callVars, admitted,
                   extractVars, retryVars, feedVars>>

\* one tick passes while a call runs, whatever the goroutines are doing: a
\* timer that is due may fire late.  Past MaxTime the clock moves only as far
\* as a sleeping task's reservation needs.
OverlapTick ==
    /\ \E c \in Calls : calls[c].dpc \in {"loop", "acquire", "spawn"}
    /\ \/ clock < MaxTime
       \/ \E c \in Calls : \E i \in CallTasks(c) :
             calls[c].tpc[i] = "sleeping" /\ calls[c].twait[i].wake > clock
    /\ clock' = clock + 1
    /\ UNCHANGED <<cfgVars, ctxState, ctxDeadline, limVars, callVars, admitted, calls,
                   extractVars, retryVars, feedVars>>

NextOverlap ==
    \/ \E c \in Calls : OverlapBegin(c)
    \/ \E c \in Calls : OverlapBeginTicker(c)
    \/ \E c \in Calls : OverlapWgAdd(c)
    \/ \E c \in Calls : OverlapAcquire(c)
    \/ \E c \in Calls : OverlapSpawn(c)
    \/ \E c \in Calls : OverlapReturn(c)
    \/ \E c \in Calls : \E i \in CallTasks(c) : OverlapWaitNow(c, i)
    \/ \E c \in Calls : \E i \in CallTasks(c) : OverlapWaitReserve(c, i)
    \/ \E c \in Calls : \E i \in CallTasks(c) : OverlapWaitTimer(c, i)
    \/ \E c \in Calls : \E i \in CallTasks(c) : OverlapTimerFires(c, i)
    \/ \E c \in Calls : \E i \in CallTasks(c) : OverlapWaitReturn(c, i)
    \/ \E c \in Calls : \E i \in CallTasks(c) : OverlapExtract(c, i)
    \/ \E c \in Calls : \E i \in CallTasks(c) : OverlapReleaseSlot(c, i)
    \/ \E c \in Calls : \E i \in CallTasks(c) : OverlapWgDone(c, i)
    \/ OverlapTick

SpecOverlap == InitOverlap /\ [][NextOverlap]_vars

(***************************************************************************)
(* Properties of ScrapeInParallel (checked under Spec)                     *)
(***************************************************************************)
Count(seq, Test(_)) == Cardinality({j \in 1..Len(seq) : Test(seq[j])})
\* the task has built the URLResult it sends
Produced(i) == tpc[i] \in {"send", "release", "wgDone", "finished"}
\* the task holds a semaphore slot: spawned and not yet past <-semaphore
HoldsSlot(i) ==
    tpc[i] \in {"limiter", "ctxCheck", "reserve", "timer", "sleeping", "return", "cancel",
                "cancelAt", "extract", "send", "release"}
SlotsHeld == Cardinality({i \in Tasks : HoldsSlot(i)})
\* the task's own extraction returned a body
Succeeded(i) == extracted[i].err = "nil" /\ extracted[i].hasBodyFound
IsCtxCause(c) == c \in {"context.Canceled", "context.DeadlineExceeded"}

\* C1: when ScrapeInParallel returns, the returned list has len(urls) entries
\* and every URL occurs among the result URL fields exactly as often as in the
\* input, whatever failed and whenever the context was cancelled.
C1_OneResultPerURL ==
    dpc = "done" =>
        /\ Len(finalResults) = Len(urls)
        /\ \A u \in URLSet :
              Count(finalResults, LAMBDA r : r.URL = u) = Count(urls, LAMBDA x : x = u)

\* C1 witness: a call on a list that repeats a URL returned after a cancellation,
\* with one extracted result and one result of a cancelled wait.
C1_Witness ==
    /\ dpc = "done"
    /\ Len(urls) >= 2
    /\ urls[1] = urls[2]
    /\ ctxState = "canceled"
    /\ \E j \in 1..Len(finalResults) : finalResults[j].Error = NilError
    /\ \E j \in 1..Len(finalResults) : finalResults[j].Error.kind = "RateLimitWait"

\* C2: at most maxConcurrency tasks are past the semaphore acquisition and not
\* yet released, and the loop is about to spawn a task only when fewer than
\* maxConcurrency tasks hold a slot.
C2_ConcurrencyBound ==
    /\ SlotsHeld <= maxConcurrency
    /\ semaphore <= maxConcurrency
    /\ dpc = "spawn" => SlotsHeld < maxConcurrency

\* C2 witness: the pool is saturated and the loop is blocked at the semaphore
\* send with URLs left.
C2_Witness ==
    /\ dpc = "acquire"
    /\ idx <= Len(urls)
    /\ semaphore = maxConcurrency
    /\ SlotsHeld = maxConcurrency
    /\ \E i \in Tasks : tpc[i] = "extract"

\* C3: a task's result has a nil Error exactly when its own extraction returned
\* a body, and the returned list has len(urls) entries of which exactly the
\* failed tasks' have a non-nil Error.
C3_FailureIsolation ==
    /\ \A i \in Tasks : Produced(i) =>
          /\ tres[i].URL = urls[i]
          /\ (tres[i].Error = NilError <=> Succeeded(i))
    /\ dpc = "done" =>
          /\ Len(finalResults) = Len(urls)
          /\ Count(finalResults, LAMBDA r : r.Error # NilError)
                = Cardinality({i \in Tasks : ~Succeeded(i)})

\* C3 witness: a returned batch with one failed and one successful URL.
C3_Witness ==
    /\ dpc = "done"
    /\ Len(urls) = 2
    /\ Count(finalResults, LAMBDA r : r.Error # NilError) = 1
    /\ \E i \in Tasks : extracted[i].err = "FetchFailure"
    /\ \E i \in Tasks : Succeeded(i)

\* C4 (as claimed): the result of a page with a title and no body has a non-nil
\* Error and an empty Content.
C4_TitleOnlyEmptyContent ==
    \A i \in Tasks :
        (Produced(i) /\ extracted[i].err = "nil" /\ ~extracted[i].hasBodyFound) =>
            /\ tres[i].Error # NilError
            /\ tres[i].Content = <<>>

\* C5: ScrapeInParallel has returned only if every task is past its deferred
\* calls, the semaphore is empty, and the list holds every task's result.
C5_JoinBarrier ==
    dpc = "done" =>
        /\ \A i \in Tasks : tpc[i] = "finished"
        /\ semaphore = 0
        /\ wg = 0
        /\ finalResults = resultsChan
        /\ Len(finalResults) = Len(urls)

\* C5 witness: a call with two URLs has returned.
C5_Witness ==
    /\ dpc = "done"
    /\ Len(urls) = 2
    /\ \E i \in Tasks : extracted[i] # NotCalled

\* the context is cancelled, or its deadline has passed (Done closes then or later)
DeadlinePassed == ctxDeadline # NoDeadline /\ clock >= ctxDeadline
CtxEnded == CtxDone \/ DeadlinePassed

\* C6: whenever a task leaves the rate-limiter wait without having been
\* admitted while the context is cancelled or its deadline has passed, its
\* result is an error for its URL that wraps the context's cause
\* (context.Canceled or context.DeadlineExceeded), and FetchAndExtractText is
\* never called for a task whose result is a rate-limiter error.
C6_WaitCancelled ==
    /\ [][\A i \in Tasks :
            (tpc[i] \in {"ctxCheck", "reserve", "cancelAt"} /\ CtxEnded /\ tpc'[i] = "send") =>
                /\ tres'[i].URL = urls[i]
                /\ tres'[i].Content = <<>>
                /\ IsCtxCause(tres'[i].Error.wraps)
                /\ CtxDone => tres'[i].Error.wraps = CtxErr
                /\ extracted'[i] = NotCalled]_vars
    /\ [](\A i \in Tasks : tres[i].Error.kind = "RateLimitWait" => extracted[i] = NotCalled)

\* C7: a call of ScrapeInParallel entered with a context that is already done
\* (cancelled, or past its deadline) returns, with one result per URL, each an
\* error wrapping the context's cause; and all along such a call no task
\* reserves at the limiter, is admitted, sleeps on a reservation or calls
\* FetchAndExtractText.
C7_AlreadyCancelled ==
    /\ [](IsCtxCause(ctxAtCall) =>
            /\ admitted = <<>>
            /\ \A i \in Tasks :
                  /\ extracted[i] = NotCalled
                  /\ tpc[i] \notin {"reserve", "timer", "sleeping", "return", "cancel",
                                   "cancelAt", "extract"}
                  /\ Produced(i) => tres[i] = URLResult(urls[i], <<>>, WaitError(ctxAtCall)))
    /\ (dpc = "call" /\ CtxDone) ~>
            /\ dpc = "done"
            /\ Len(finalResults) = Len(urls)
            /\ \A j \in 1..Len(finalResults) : finalResults[j].Error = WaitError(CtxErr)

\* C8: the times at which tasks are admitted past the rate limiter are at least
\* one interval apart, whatever the number of free semaphore slots.
C8_RateLimit ==
    \A a, b \in 1..Len(admitted) : a < b => admitted[b] - admitted[a] >= rateLimit

(***************************************************************************)
(* Properties of extractContentText (checked under SpecExtract)            *)
(***************************************************************************)
\* the parts of the main region, without the title part
BodyParts(d) == CollectParts(ContentElements(d))
\* the text of the first <title>, as found in the document
RawTitle(d) ==
    LET titles == SelectTags(Descendants(d), {"title"})
    IN IF titles = <<>> THEN <<>> ELSE NodeText(titles[1])

\* C9: a document whose title is empty or absent and whose main region yields
\* no part makes extraction return an error, an empty text and bodyFound =
\* false; and an error is returned exactly when no part was collected.
C9_NothingExtracted ==
    xpc = "returned" =>
        /\ (TrimSpace(RawTitle(doc)) = <<>> /\ BodyParts(doc) = <<>>) =>
              /\ xres.err # "nil"
              /\ xres.text = <<>>
              /\ xres.hasBodyFound = FALSE
        /\ xres.err # "nil" <=> Len(xparts) = 0
        /\ xres.err # "nil" <=> (TrimSpace(RawTitle(doc)) = <<>> /\ BodyParts(doc) = <<>>)

\* C9 witness: a document with a blank title and elements that yield no part
\* was rejected.
C9_Witness ==
    /\ xpc = "returned"
    /\ xres.err = "NothingExtracted"
    /\ RawTitle(doc) # <<>>
    /\ ContentElements(doc) # <<>>

\* C10: a document with a non-empty (trimmed) title whose main region yields no
\* part makes extraction return no error, bodyFound = false and, as text,
\* exactly the title prefix followed by the trimmed title.
C10_TitleOnly ==
    (xpc = "returned" /\ TrimSpace(RawTitle(doc)) # <<>> /\ BodyParts(doc) = <<>>) =>
        /\ xres.err = "nil"
        /\ xres.hasBodyFound = FALSE
        /\ xres.text = titlePrefix \o TrimSpace(RawTitle(doc))

\* C10 witness: the title " a\t\nb\n" with a paragraph of exactly
\* MinParagraphLength characters gave the title line alone.
C10_Witness ==
    /\ xpc = "returned"
    /\ xres.hasBodyFound = FALSE
    /\ xres.text = titlePrefix \o <<"a", "\t", "\n", "b">>
    /\ \E j \in 1..Len(ContentElements(doc)) : ContentElements(doc)[j] = Para(Text20)

\* C11: whenever extraction returns no error the text is non-empty, and
\* bodyFound is true exactly when at least one part other than the title part
\* was collected, also on a page without a title whose single body part
\* begins like a title line.
C11_OutputGuarantee ==
    xpc = "returned" =>
        /\ xres.err = "nil" => xres.text # <<>>
        /\ xres.hasBodyFound <=> BodyParts(doc) # <<>>

\* parts is the image, in order, of a subsequence of elements
RECURSIVE IsOrderedImage(_, _)
IsOrderedImage(parts, elements) ==
    IF parts = <<>> THEN TRUE
    ELSE IF elements = <<>> THEN FALSE
    ELSE IF ElementContent(Head(elements)) = Head(parts)
         THEN IsOrderedImage(Tail(parts), Tail(elements))
         ELSE IsOrderedImage(parts, Tail(elements))

\* C12: the collected parts are the title part first (when there is a title)
\* followed by the parts of headings, paragraphs, list items, blockquotes,
\* tables and code blocks in the depth-first pre-order of their elements in the
\* document: an element that precedes another has its part before the other's.
C12_DocumentOrder ==
    xpc = "returned" =>
        LET title == TrimSpace(RawTitle(doc))
            elements == SelectSeq(Descendants(RemoveDesc(doc, {}, NoiseAttrs)), MatchesContent)
            body == IF title # <<>> THEN Tail(xparts) ELSE xparts
        IN /\ title # <<>> => (xparts # <<>> /\ xparts[1] = titlePrefix \o title)
           /\ IsOrderedImage(body, elements)
           /\ Len(body) = Len(BodyParts(doc))

\* C12 witness: a titled page with a code block followed by a long paragraph
\* gave the title line, the fenced block and the paragraph, in that order.
C12_Witness ==
    /\ xpc = "returned"
    /\ Len(xparts) = 3
    /\ HasPrefix(xparts[1], titlePrefix)
    /\ xparts[2] = <<"BT", "BT", "BT", "\n", "a", "\t", "\n", "b", "\n", "BT", "BT", "BT">>
    /\ xparts[3] = LongText
    /\ xres.text = Join(xparts, <<"\n", "\n">>)

\* the number of places at which needle occurs in text
Occurrences(needle, text) ==
    Cardinality({i \in 1..(Len(text) - Len(needle) + 1) :
                    SubSeq(text, i, i + Len(needle) - 1) = needle})
\* heading, paragraph, list item, blockquote, table or pre
Kind(n) == IF n.tag \in HeadingTags THEN "heading" ELSE n.tag
\* the text an element stands for in the output
OwnText(n) == IF n.tag = "pre" THEN TrimSpace(NodeText(n)) ELSE NormalizeText(NodeText(n))

\* C13: for two matched elements of different kinds, one a descendant of the
\* other, the descendant's text (when the document holds that text once)
\* appears at most once in the assembled output, and once when the
\* descendant yields a part.
C13_NoDuplication ==
    (xpc = "returned" /\ xres.err = "nil") =>
        LET elements == ContentElements(doc)
        IN \A i \in 1..Len(elements) :
              LET inner == SelectSeq(Descendants(elements[i]), MatchesContent)
              IN \A j \in 1..Len(inner) :
                    (/\ Kind(inner[j]) # Kind(elements[i])
                     /\ OwnText(inner[j]) # <<>>
                     /\ Occurrences(OwnText(inner[j]), NodeText(doc)) = 1) =>
                        /\ Occurrences(OwnText(inner[j]), xres.text) <= 1
                        /\ ElementContent(inner[j]) # <<>> =>
                              Occurrences(OwnText(inner[j]), xres.text) = 1

\* the whitespace-normalized text of a heading, paragraph, list item or
\* blockquote, without its table and pre subtrees
GeneralText(n) == NormalizeText(NodeText(RemoveDesc(n, {"pre", "table"}, {})))

\* C14: measured in characters of the normalized text, a paragraph or
\* blockquote of the main region yields a part exactly when it is longer than
\* 20 characters, and a heading yields a part, "## " followed by the text,
\* exactly when it is longer than 3 characters, for ASCII and non-ASCII text.
C14_CharacterThresholds ==
    xpc = "returned" =>
        LET elements == ContentElements(doc)
        IN \A i \in 1..Len(elements) :
              LET text == GeneralText(elements[i])
                  part == ElementContent(elements[i])
              IN /\ elements[i].tag \in {"p", "blockquote"} =>
                       /\ part # <<>> <=> Len(text) > MinParagraphLength
                       /\ part # <<>> => part = text
                 /\ elements[i].tag \in HeadingTags =>
                       /\ part # <<>> <=> Len(text) > MinHeadingLength
                       /\ part # <<>> => part = <<"#", "#", " ">> \o text

\* C15: every list item of the main region with a non-empty normalized text
\* yields that text as a part whatever its length, and a page whose body
\* parts all come from list items of at most 20 characters is returned with
\* bodyFound = true.
C15_ListItemsKept ==
    xpc = "returned" =>
        LET elements == ContentElements(doc)
            items == SelectTags(elements, {"li"})
        IN /\ \A i \in 1..Len(items) :
                 GeneralText(items[i]) # <<>> =>
                    /\ ElementContent(items[i]) = GeneralText(items[i])
                    /\ \E k \in 1..Len(xparts) : xparts[k] = GeneralText(items[i])
           /\ (/\ BodyParts(doc) # <<>>
               /\ BodyParts(doc) = CollectParts(items)
               /\ \A i \in 1..Len(items) : Len(GeneralText(items[i])) <= MinParagraphLength)
                 => xres.hasBodyFound = TRUE

\* the normalized th/td cell texts of a row
CellTexts(row) ==
    LET cells == SelectTags(Descendants(row), {"th", "td"})
    IN [c \in 1..Len(cells) |-> NormalizeText(NodeText(cells[c]))]
\* the block a table stands for: caption line, then one line per row; nothing
\* when there is no caption and no row has a cell with text
TableBlock(t) ==
    LET captions == SelectTags(Descendants(t), {"caption"})
        caption == TrimSpace(IF captions = <<>> THEN <<>> ELSE NodeText(captions[1]))
        rows == SelectTags(Descendants(t), {"tr"})
        lines == (IF caption # <<>> THEN <<tableCaptionPrefix \o caption>> ELSE <<>>)
                 \o [r \in 1..Len(rows) |-> Join(CellTexts(rows[r]), <<" ", "|", " ">>)]
        hasContent == \E r \in 1..Len(rows) :
                         \E c \in 1..Len(CellTexts(rows[r])) : CellTexts(rows[r])[c] # <<>>
    IN IF caption = <<>> /\ ~hasContent THEN <<>> ELSE Join(lines, <<"\n">>)

\* C16: every table of the main region yields the caption line (caption prefix
\* and trimmed caption, when there is a caption) followed by one line per row
\* of the normalized cell texts joined with " | ", the lines joined with a
\* newline; a table without caption none of whose rows has content yields no
\* part.
C16_TableFormat ==
    xpc = "returned" =>
        LET elements == ContentElements(doc)
            tables == SelectTags(elements, {"table"})
            Block(n) == IF n.tag = "table" THEN TableBlock(n) ELSE ElementContent(n)
        IN /\ \A i \in 1..Len(tables) : ElementContent(tables[i]) = TableBlock(tables[i])
           /\ Len(xparts) = (IF TrimSpace(RawTitle(doc)) # <<>> THEN 1 ELSE 0)
                             + Count(elements, LAMBDA n : Block(n) # <<>>)

\* a line of three backticks, the text, a line of three backticks
Fenced(text) == <<"BT", "BT", "BT", "\n">> \o text \o <<"\n", "BT", "BT", "BT">>

\* C17: every pre element of the main region with non-blank text yields
\* exactly one part: its text, trimmed at both ends only, between two lines of
\* three backticks; a blank pre yields no part.
C17_CodeBlockFormat ==
    xpc = "returned" =>
        LET pres == SelectTags(ContentElements(doc), {"pre"})
        IN /\ \A i \in 1..Len(pres) :
                 LET preText == TrimSpace(NodeText(pres[i]))
                 IN IF preText # <<>>
                    THEN Count(xparts, LAMBDA part : part = Fenced(preText))
                           = Count(pres, LAMBDA n : TrimSpace(NodeText(n)) = preText)
                    ELSE ElementContent(pres[i]) = <<>>
           /\ Count(xparts, LAMBDA part : HasPrefix(part, <<"BT", "BT", "BT", "\n">>))
                 = Count(pres, LAMBDA n : TrimSpace(NodeText(n)) # <<>>)

\* C17 witness: a pre element with the text " a\t\nb\n" gave one fenced part
\* that keeps the tab and the newline between a and b.
C17_Witness ==
    /\ xpc = "returned"
    /\ \E i \in 1..Len(ContentElements(doc)) :
          /\ ContentElements(doc)[i].tag = "pre"
          /\ NodeText(ContentElements(doc)[i]) = PaddedA
    /\ Count(xparts, LAMBDA part : part = Fenced(<<"a", "\t", "\n", "b">>)) = 1

\* the selectors of mainContentSelectors in the order they are written
SelectorPriority ==
    <<"article", "main", "role=main", "#main", "#content", ".post-content",
      ".article-body", ".entry-content", ".markdown-body", ".readme">>
MatchesSelector(n, sel) ==
    IF sel \in MainTags THEN n.tag = sel
    ELSE IF sel = "role=main" THEN n.tag = "div" /\ n.attr = sel
    ELSE n.attr = sel
\* the first match of the first selector, in priority order, that matches at all
RECURSIVE PriorityMatch(_, _)
PriorityMatch(d, selectors) ==
    IF selectors = <<>> THEN <<>>
    ELSE LET found == SelectSeq(Descendants(d), LAMBDA n : MatchesSelector(n, Head(selectors)))
         IN IF found # <<>> THEN <<found[1]>> ELSE PriorityMatch(d, Tail(selectors))

\* C18: the region traversed is the first match of the highest-priority
\* selector that matches anywhere in the document (article, then main, then
\* role=main, then the container ids and classes), and the fallback region is
\* used only when no selector matches.
C18_SelectorPriority ==
    xpc = "returned" =>
        LET chosen == PriorityMatch(doc, SelectorPriority)
            title == TrimSpace(RawTitle(doc))
            titlePart == IF title # <<>> THEN <<titlePrefix \o title>> ELSE <<>>
        IN /\ chosen # <<>> =>
                 xparts = titlePart \o CollectParts(SelectSeq(
                     Descendants(RemoveDesc(chosen[1], {}, NoiseAttrs)), MatchesContent))
           /\ chosen = <<>> <=>
                 ~(\E i \in 1..Len(Descendants(doc)) : MatchesMain(Descendants(doc)[i]))

\* C19: NewExtractor(nil) returns a nil extractor and the error "Fetcher cannot
\* be nil"; with a fetcher it returns no error and an extractor that holds
\* that fetcher; no extractor returned by the constructor has a nil fetcher.
C19_NilFetcherRejected ==
    /\ xpc \notin {"idle", "new"} =>
          IF fetcher = "nil"
          THEN extractor.isNil /\ newErr = "Fetcher cannot be nil" /\ xpc = "rejected"
          ELSE ~extractor.isNil /\ extractor.fetcher = fetcher /\ newErr = "nil"
    /\ ~extractor.isNil => extractor.fetcher # "nil"

\* C19 witness: the constructor was called with a nil fetcher and returned
\* the nil extractor and an error.
C19_Witness ==
    /\ xpc = "rejected"
    /\ fetcher = "nil"
    /\ extractor = NilExtractor
    /\ newErr = "Fetcher cannot be nil"

(***************************************************************************)
(* Properties of retry.Do (checked under SpecRetry)                        *)
(***************************************************************************)
\* C20: with MaxRetries = n, op is invoked at most n + 1 times; when the call
\* has returned, every attempt failed with an error the predicate accepts
\* and the context is still live, op was invoked exactly n + 1 times and the
\* error returned reports that the maximum retry count was reached and
\* wraps the error of the last attempt.
C20_AttemptBound ==
    /\ Len(rcalls) <= rmax + 1
    /\ (/\ rpc = "returned"
        /\ rctx = "live"
        /\ \A k \in 1..Len(rcalls) : rcalls[k] \in {"retryable", "retryableCtx", "permanent"})
          => /\ Len(rcalls) = rmax + 1
             /\ rresult # NoError
             /\ rresult.chain[1] = "maxRetries"
             /\ rresult.attempt = rmax + 1

\* the innermost error of the chain is the NonRetryableHTTPError of an attempt
IsNonRetryableError(err) == err # NoError /\ err.chain[Len(err.chain)] = "fatal"

\* C21: an attempt whose error the should-retry predicate rejects is the last
\* attempt, however many retries remain (the only one when it is the first),
\* and the error retry.Do then returns still satisfies IsNonRetryableError.
C21_NonRetryableStops ==
    /\ \A k \in 1..Len(rcalls) : rcalls[k] = "fatal" => k = Len(rcalls)
    /\ (rcalls # <<>> /\ rcalls[Len(rcalls)] = "fatal") => rpc \in {"classify", "returned"}
    /\ (rpc = "returned" /\ rcalls[Len(rcalls)] = "fatal") =>
          /\ IsNonRetryableError(rresult)
          /\ rresult.attempt = Len(rcalls)

\* C21 witness: with two retries allowed, the first attempt was rejected and
\* the call returned after that one invocation with the rejected error inside.
C21_Witness ==
    /\ rpc = "returned"
    /\ rmax = MaxRetriesBound
    /\ rcalls = <<"fatal">>
    /\ rctx = "live"
    /\ IsNonRetryableError(rresult)

\* C22: retry.Do returns nil exactly when an attempt returned nil, which is
\* then the last attempt among at most n + 1; and with MaxRetries >= 2, a live
\* context and two failed attempts that may be retried (a network error, a
\* 5xx response), a third attempt is made, and if it succeeds the call
\* returns nil after exactly 3 invocations.
C22_StopsAtFirstSuccess ==
    /\ \A k \in 1..Len(rcalls) : rcalls[k] = "ok" => k = Len(rcalls)
    /\ rpc = "returned" =>
          /\ rresult = NoError <=> rcalls[Len(rcalls)] = "ok"
          /\ Len(rcalls) <= rmax + 1
          /\ (/\ rmax >= 2
              /\ rctx = "live"
              /\ ~relapsed
              /\ Len(rcalls) >= 2
              /\ rcalls[1] = "retryable"
              /\ rcalls[2] = "retryable") =>
                /\ Len(rcalls) >= 3
                /\ rcalls[3] = "ok" => (rresult = NoError /\ Len(rcalls) = 3)

\* C22 witness: with MaxRetries = 2, two retryable failures and a success, the
\* call returned nil after three invocations.
C22_Witness ==
    /\ rpc = "returned"
    /\ rmax = 2
    /\ rcalls = <<"retryable", "retryable", "ok">>
    /\ rresult = NoError

\* C23: when an attempt has failed with an error that may be retried and the
\* context is cancelled or past its deadline, the next step of retry.Do ends
\* the retrying, whatever retries remain, with the context's error; and the
\* error the call then returns reports context timeout/cancel and wraps that
\* context error, never the max-retries-reached error.
C23_CancelledContext ==
    /\ [][(rpc = "nextBackOff" /\ rctx # "live" /\ rpc' # rpc) =>
              (/\ rpc' = "classify"
               /\ rerr' = CtxError(rctx)
               /\ rcalls' = rcalls
               /\ rnumTries' = rnumTries)]_vars
    /\ []((rpc = "returned" /\ rerr \in {CtxError("canceled"), CtxError("deadline")}) =>
              (/\ rresult = Wrapf("ctx", rerr)
               /\ rresult.chain[1] # "maxRetries"))

\* C23 witness: with two retries allowed and the context cancelled, the first
\* attempt failed with a retryable error and the call returned the context
\* error after that one invocation.
C23_Witness ==
    /\ rpc = "returned"
    /\ rmax = MaxRetriesBound
    /\ rctx = "canceled"
    /\ rcalls = <<"retryable">>
    /\ rnumTries = 0
    /\ rresult = Wrapf("ctx", CtxError("canceled"))

\* the Link values of a list of items, empty ones left out, in item order
NonEmptyLinks(items) ==
    LET links == [k \in 1..Len(items) |-> items[k].Link]
    IN SelectSeq(links, LAMBDA l : l # "")

\* C24: a returned GetLinks call on a FeedAdapter has returned exactly the
\* non-empty Link values of the feed's items in item order (so the empty list
\* for a nil feed, a feed without items and items whose links are all empty);
\* a returned GetAllLinks call has returned the empty list for a nil source
\* and otherwise exactly what the source's GetLinks returns.
C24_FeedLinks ==
    fpc = "returned" =>
        /\ fsource.kind = "nil" => fresult = <<>>
        /\ fsource.kind = "MockLinkSource" => fresult = fsource.Links
        /\ fsource.kind = "FeedAdapter" =>
              /\ fresult = NonEmptyLinks(fsource.Feed.Items)
              /\ \A k \in 1..Len(fresult) : fresult[k] # ""
              /\ (fsource.Feed.isNil
                  \/ \A k \in 1..Len(fsource.Feed.Items) :
                        fsource.Feed.Items[k].Link = "") => fresult = <<>>

\* C24 witness: a feed of three items whose second link is empty has returned
\* the first and the third link
C24_Witness ==
    /\ fpc = "returned"
    /\ fsource = NewFeedAdapter(Feed(<<Item("http://example.com/b"), Item(""),
                                       Item("http://example.com/a")>>))
    /\ fresult = <<"http://example.com/b", "http://example.com/a">>

\* the calling goroutine is at the semaphore send and every slot is taken
DispatcherBlocked ==
    /\ dpc = "acquire"
    /\ semaphore = maxConcurrency

\* C25: whenever the dispatch loop is blocked on a saturated semaphore and the
\* shared context is done, the calling goroutine has a step of its own to
\* take: the cancellation ends the wait, no task has to free a slot first.
C25_AcquireCancellable ==
    (DispatcherBlocked /\ CtxDone) => ENABLED (Acquire \/ Spawn \/ Return)

\* C26: when no main-content selector matches, the parts collected are the
\* title part followed by the parts of the content elements of the document
\* without its header, footer, nav, aside, .sidebar, script, style and form
\* subtrees (and without the noise subtrees): nothing inside such a subtree
\* contributes a part.
C26_FallbackExcludesChrome ==
    xpc = "returned" =>
        LET title == TrimSpace(RawTitle(doc))
            titlePart == IF title # <<>> THEN <<titlePrefix \o title>> ELSE <<>>
            region == RemoveDesc(RemoveDesc(doc, ChromeTags, {".sidebar"}), {}, NoiseAttrs)
        IN SelectSeq(Descendants(doc), MatchesMain) = <<>> =>
              xparts = titlePart \o CollectParts(SelectSeq(Descendants(region), MatchesContent))

\* the tasks of call c that are past the semaphore send and not yet released
CallSlotsHeld(c) ==
    Cardinality({i \in CallTasks(c) :
        calls[c].tpc[i] \in {"limiter", "reserve", "timer", "sleeping", "return", "extract",
                             "release"}})
    + (IF calls[c].dpc = "spawn" THEN 1 ELSE 0)

\* C27: while two ScrapeInParallel calls overlap on one scraper built with
\* maxConcurrency = k, the tasks past the semaphore-acquire point, summed over
\* both calls, are never more than k; and the admissions of both calls come
\* from one limiter: any two of them are at least one interval apart.
C27_ScraperOwnsSemaphore ==
    /\ CallSlotsHeld(1) + CallSlotsHeld(2) <= maxConcurrency
    /\ \A a, b \in 1..Len(admitted) : a < b => admitted[b] - admitted[a] >= rateLimit

\* C28: every FetchAndExtractText call has invoked the fetcher exactly once,
\* never twice; when the fetcher returned an error the call has returned that
\* error with an empty text and bodyFound = false, nothing was parsed or
\* collected, and the call takes no further step.
C28_SingleAttempt ==
    /\ fetchCalls <= 1
    /\ xpc \in {"new", "constructed", "rejected"} => fetchCalls = 0
    /\ xpc \in {"failed", "start", "validate", "returned"} => fetchCalls = 1
    /\ xpc = "failed" =>
          /\ xres = ExtractionResult(<<>>, FALSE, "FetchFailure")
          /\ doc = <<>>
          /\ xparts = <<>>
          /\ ~ENABLED NextExtract

\* C28 witness: the one fetch of a call failed and the call returned the error
C28_Witness ==
    /\ xpc = "failed"
    /\ fetchCalls = 1
    /\ xres.err = "FetchFailure"
    /\ xres.text = <<>>
    /\ ~xres.hasBodyFound

\* C30: a scraper built by NewParallelScraper from any arguments holds a
\* maxConcurrency above zero and a request interval above zero, no
\* ScrapeInParallel call runs into an unset interval, and neither field
\* changes for as long as the instance lives.
C30_ConfigurationInvariant ==
    /\ [](/\ maxConcurrency > 0
          /\ rateLimit > 0
          /\ \A c \in Calls : calls[c].dpc # "panicked")
    /\ [][maxConcurrency' = maxConcurrency /\ rateLimit' = rateLimit]_vars

\* C29: under fair scheduling of the calling goroutine, of the tasks and of
\* the clock (so every Wait and every extraction call returns), every
\* ScrapeInParallel call eventually returns, for every URL list and every
\* maxConcurrency; a task that is about to send its result finds room in the
\* result channel; and the slots taken from the semaphore are exactly those of
\* the tasks that have not yet run their deferred release, on every path.
C29_Termination ==
    /\ [](\A i \in Tasks : tpc[i] = "send" => Len(resultsChan) < Len(urls))
    /\ [](semaphore = SlotsHeld + (IF dpc = "spawn" THEN 1 ELSE 0))
    /\ <>(dpc = "done")

====
